---- MODULE Spec2Model ----
(***************************************************************************)
(* A model of the Fastmail MCP bridge: the JMAP transport with its cached  *)
(* session (client/transport.py), the client facade with its fixture       *)
(* fallback (client/api.py), the command handlers (commands/*.py) and the  *)
(* line dispatcher (server.py).                                            *)
(*                                                                         *)
(* A call runs in a handling context.  In stdio mode there is one context; *)
(* in TCP mode (socketserver.ThreadingTCPServer) there is one thread per   *)
(* connection and the contexts interleave at every access to the           *)
(* transport's two cached fields.                                          *)
(***************************************************************************)
EXTENDS Integers, Sequences, FiniteSets, TLC

\* ------------------------------------------------------------------ bounds

\* Largest sort key (received time, display name, start time) of a record.
MaxKey == 2
\* Longest record list a backend response or a fixture file holds.
MaxRecords == 2
\* Largest limit a caller passes.
MaxLimit == 3
\* Calls started in one run.
MaxCalls == 3
\* Lines read from one stream.
MaxLines == 3
\* Largest offset a caller passes.
MaxOffset == 1

\* --------------------------------------------------------------- exceptions

FTE == "FastmailTransportError"

\* FastmailTransportError.__init__: error_type defaults to "TransportError".
TransportError(msg) == [cls |-> FTE, etype |-> "TransportError", msg |-> msg]

auth_error(msg) == [cls |-> FTE, etype |-> "AuthenticationError", msg |-> msg]

\* A capability error that is an ordinary transport error without the name.
capability_errorAnonymous(capability) ==
    [cls |-> FTE, etype |-> "TransportError", msg |-> "JMAP capability not available"]

capability_error(capability) ==
    [cls |-> FTE, etype |-> "CapabilityError",
     msg |-> "JMAP capability '" \o capability \o "' not available"]

network_error(msg) == [cls |-> FTE, etype |-> "NetworkError", msg |-> msg]

\* A Python built-in exception: its class doubles as its kind tag.
PyError(cls, msg) == [cls |-> cls, etype |-> cls, msg |-> msg]

Raise(exc) == [kind |-> "raise", exc |-> exc, value |-> <<>>]
Return(v) == [kind |-> "ok", exc |-> PyError("None", ""), value |-> v]

\* ----------------------------------------------------------------- records

JMAP_MAIL_CAPABILITY == "urn:ietf:params:jmap:mail"
JMAP_CONTACTS_CAPABILITY == "urn:ietf:params:jmap:contacts"
JMAP_CALENDAR_CAPABILITY == "urn:ietf:params:jmap:calendars"
Capabilities == {JMAP_MAIL_CAPABILITY, JMAP_CONTACTS_CAPABILITY, JMAP_CALENDAR_CAPABILITY}

\* A raw record is abstracted to what from_json reads of it: f says whether its
\* sort field (received time, display name, start time) is usable or how the
\* record is broken, k is the field's value (JMAP dates are UTC dates, totally
\* ordered).  "noid" is a record with a usable sort field and no id field.
Keys == 1..MaxKey
Shapes == {"ok", "missing", "unparsable", "illtyped", "noid"}
RawRecords ==
    {[f |-> "ok", k |-> k] : k \in Keys}
        \cup {[f |-> f, k |-> 1] : f \in Shapes \ {"ok"}}
RawLists == UNION {[1..n -> RawRecords] : n \in 0..MaxRecords}

\* JMAPTransport._parse_messages/_parse_contacts/_parse_events: every field is
\* read with item.get, so the flattened record always carries an "id" key
\* (None when the item had none).
ParseItem(raw) == IF raw.f = "noid" THEN [f |-> "ok", k |-> raw.k] ELSE raw

ParseItems(items) == [i \in 1..Len(items) |-> ParseItem(items[i])]

\* Message.from_json: a missing received_at is a ValueError, fromisoformat
\* raises ValueError on an unparsable string and TypeError on a non-string,
\* payload["id"] raises KeyError.
MessageFromJson(raw) ==
    CASE raw.f = "missing" -> Raise(PyError("ValueError", "missing received_at"))
      [] raw.f = "unparsable" -> Raise(PyError("ValueError", "isoformat"))
      [] raw.f = "illtyped" -> Raise(PyError("TypeError", "isoformat"))
      [] raw.f = "noid" -> Raise(PyError("KeyError", "id"))
      [] OTHER -> Return(raw.k)

\* Contact.from_json: every field is optional; a name that is absent is ""
\* (key 0), any other value is str(name).
ContactFromJson(raw) ==
    IF raw.f = "missing" THEN Return(0) ELSE Return(raw.k)

\* CalendarEvent.from_json: start is required and parsed; id defaults to "".
EventFromJson(raw) ==
    CASE raw.f = "missing" -> Raise(PyError("ValueError", "missing start"))
      [] raw.f = "unparsable" -> Raise(PyError("ValueError", "isoformat"))
      [] raw.f = "illtyped" -> Raise(PyError("TypeError", "isoformat"))
      [] OTHER -> Return(raw.k)

Resources == {"messages", "contacts", "events"}

FromJson(resource, raw) ==
    CASE resource = "messages" -> MessageFromJson(raw)
      [] resource = "contacts" -> ContactFromJson(raw)
      [] OTHER -> EventFromJson(raw)

\* [X.from_json(item) for item in payload]: the first record that fails
\* decides the exception.
RECURSIVE FromJsonAll(_, _)
FromJsonAll(resource, raws) ==
    IF raws = <<>> THEN Return(<<>>)
    ELSE LET head == FromJson(resource, Head(raws))
         IN IF head.kind = "raise" THEN head
            ELSE LET rest == FromJsonAll(resource, Tail(raws))
                 IN IF rest.kind = "raise" THEN rest
                    ELSE Return(<<head.value>> \o rest.value)

\* ------------------------------------------------------ sorting and slicing

RECURSIVE InsertAsc(_, _)
InsertAsc(k, sorted) ==
    IF sorted = <<>> THEN <<k>>
    ELSE IF k < Head(sorted) THEN <<k>> \o sorted
    ELSE <<Head(sorted)>> \o InsertAsc(k, Tail(sorted))

RECURSIVE InsertDesc(_, _)
InsertDesc(k, sorted) ==
    IF sorted = <<>> THEN <<k>>
    ELSE IF k > Head(sorted) THEN <<k>> \o sorted
    ELSE <<Head(sorted)>> \o InsertDesc(k, Tail(sorted))

\* sorted(records, key=..., reverse=descending), right to left so that equal
\* keys keep their order.
RECURSIVE PySorted(_, _)
PySorted(seq, descending) ==
    IF seq = <<>> THEN <<>>
    ELSE IF descending THEN InsertDesc(Head(seq), PySorted(Tail(seq), descending))
    ELSE InsertAsc(Head(seq), PySorted(Tail(seq), descending))

\* seq[:limit], Python's slice: a negative limit counts from the end.
PySlice(seq, limit) ==
    LET n == Len(seq)
        stop == IF limit >= 0 THEN (IF limit < n THEN limit ELSE n)
                ELSE (IF n + limit > 0 THEN n + limit ELSE 0)
    IN SubSeq(seq, 1, stop)

\* Every resource ascending.
DescendingNone(resource) == FALSE

\* messages: received_at descending; contacts: display_name ascending;
\* events: starts_at ascending.
Descending(resource) == resource = "messages"

SortTrim(resource, records, limit) ==
    PySlice(PySorted(records, Descending(resource)), limit)

\* ------------------------------------------------------------------ session

NoneUrl == "None"

\* self._account_ids: None, or the dict {capability: account id} as a set of
\* <<capability, id>> pairs.
NoneIds == [none |-> TRUE, map |-> {}]
Ids(map) == [none |-> FALSE, map |-> map]

\* A session document: apiUrl (NoneUrl when the field is absent) and
\* primaryAccounts, a dict of <<capability, value is a str, value>> entries or
\* not a dict at all.
Doc(url, isDict, entries) == [apiUrl |-> url, isDict |-> isDict, entries |-> entries]

SessionDocs ==
    { Doc("u1", TRUE, {<<c, TRUE, "a1">> : c \in Capabilities}),
      Doc("u2", TRUE, {<<c, TRUE, "a2">> : c \in Capabilities}),
      Doc("u1", TRUE, {<<JMAP_MAIL_CAPABILITY, TRUE, "a1">>}),
      Doc("u1", TRUE, {<<JMAP_MAIL_CAPABILITY, TRUE, "">>,
                       <<JMAP_CONTACTS_CAPABILITY, TRUE, "a1">>}),
      Doc("u1", TRUE, {<<JMAP_MAIL_CAPABILITY, FALSE, "7">>}),
      Doc("u1", TRUE, {}),
      Doc("u1", FALSE, {}),
      Doc(NoneUrl, TRUE, {<<JMAP_MAIL_CAPABILITY, TRUE, "a1">>}) }

\* What the discovery GET can answer: a RequestException, a status, a body that
\* is not JSON, or a session document.
DiscoveryResponses ==
    {[kind |-> k, doc |-> Doc(NoneUrl, FALSE, {})] : k \in {"exc", "401", "500", "badbody"}}
        \cup {[kind |-> "doc", doc |-> d] : d \in SessionDocs}

\* A cache check that takes any stored mapping, an empty one too, for a session.
ResolvedByMapping(url, ids) == ~ids.none

\* A cache check that never hits.
ResolvedNever(url, ids) == FALSE

\* if self._api_url and self._account_ids: the cache check of _ensure_session.
Resolved(url, ids) == url # NoneUrl /\ ids.map # {}

\* {capability: str(account_id) for ... if isinstance(account_id, str)}
FilterAccounts(doc) == {<<e[1], e[3]>> : e \in {x \in doc.entries : x[2]}}

\* self._account_ids.get(capability): "" stands for None too (both are falsy).
AccountGet(map, capability) ==
    IF \E e \in map : e[1] = capability
    THEN (CHOOSE e \in map : e[1] = capability)[2]
    ELSE ""

\* ---------------------------------------------------------------- requests

Ops == {"list_messages", "list_contacts", "list_events",
        "search_messages", "get_message", "list_mailboxes"}
ListOps == {"list_messages", "list_contacts", "list_events"}
Layers == {"transport", "facade", "command"}

\* The commands modelled at the command layer: messages-list, contacts-list,
\* events-list, messages-search, messages-get and mailboxes-list.
CommandOps == Ops

\* The operations that take an offset next to their limit.
PagedOps == {"search_messages", "list_mailboxes"}

ResourceOf(op) ==
    CASE op = "list_contacts" -> "contacts"
      [] op = "list_events" -> "events"
      [] OTHER -> "messages"

\* The capability each builder passes to _account_for.
CapabilityOf(op) ==
    CASE op = "list_contacts" -> JMAP_CONTACTS_CAPABILITY
      [] op = "list_events" -> JMAP_CALENDAR_CAPABILITY
      [] OTHER -> JMAP_MAIL_CAPABILITY

\* The "get" step each parser looks for, and the "query" step the search and
\* mailbox parsers look for first.
GetMethod(op) ==
    CASE op = "list_contacts" -> "Contact/get"
      [] op = "list_events" -> "CalendarEvent/get"
      [] op = "list_mailboxes" -> "Mailbox/get"
      [] OTHER -> "Email/get"
QueryMethod(op) == IF op = "list_mailboxes" THEN "Mailbox/query" ELSE "Email/query"
NeedsQuery(op) == op \in {"search_messages", "list_mailboxes"}

\* Every builder but _build_message_get_query starts with the limit check.
ChecksLimit(op) == op # "get_message"

Limits(op) == IF ChecksLimit(op) THEN (0 - 1)..MaxLimit ELSE {1}

\* _build_*_query, up to the call of _account_for.
BuildCheck(op, limit) ==
    IF ChecksLimit(op) /\ limit <= 0
    THEN Raise(PyError("ValueError", "limit must be positive"))
    ELSE Return(<<>>)

\* PaginationRequest.__post_init__.
MaxPageLimit == 100
PaginationRequest(limit, offset) ==
    IF limit <= 0 THEN Raise(PyError("ValueError", "limit must be positive"))
    ELSE IF offset < 0 THEN Raise(PyError("ValueError", "offset must be non-negative"))
    ELSE IF limit > MaxPageLimit THEN Raise(PyError("ValueError", "limit cannot exceed 100"))
    ELSE Return(<<>>)

\* The limits at the upper end of what PaginationRequest accepts.
PageLimits == {MaxPageLimit, MaxPageLimit + 1}

\* ErrorResponse.network_error / validation_error, returned as {"error": ...}.
ErrorDict(etype, msg) ==
    [kind |-> "error", exc |-> [cls |-> "ErrorResponse", etype |-> etype, msg |-> msg],
     value |-> <<>>]

\* isinstance(exc, ValueError): json.JSONDecodeError is a ValueError.
IsValueError(exc) == exc.cls \in {"ValueError", "JSONDecodeError"}

\* The handlers of search_messages and get_message: except ValueError reports
\* through ErrorResponse.validation_error, except Exception through
\* ErrorResponse.network_error.
ReportFailure(exc) ==
    IF IsValueError(exc) THEN ErrorDict("ValidationError", exc.msg)
    ELSE ErrorDict("NetworkError", exc.msg)

\* What a command does before it calls the client: list_messages,
\* list_contacts and list_events raise ValueError; search_messages builds a
\* PaginationRequest inside its try; list_mailboxes builds one inside
\* try/except Exception, which reports every failure through
\* ErrorResponse.network_error; get_message builds a MessageGetRequest, which
\* accepts every message_id that is not empty (the ids of this model).
CommandCheck(op, limit, offset) ==
    CASE op \in ListOps ->
            IF limit <= 0 THEN Raise(PyError("ValueError", "limit must be positive"))
            ELSE Return(<<>>)
      [] op = "get_message" -> Return(<<>>)
      [] OTHER ->
            LET p == PaginationRequest(limit, offset)
            IN IF p.kind # "raise" THEN p
               ELSE IF op = "search_messages" THEN ReportFailure(p.exc)
               ELSE ErrorDict("NetworkError", p.exc.msg)

\* --------------------------------------------------------------- responses

\* What the RPC POST can answer: a RequestException, a status >= 400, a body
\* that is not JSON, or a batch response.  get/query say whether the batch
\* holds the op's "get" and "query" entries, items is the get entry's list,
\* total the query entry's total (-1 when the entry has none).
Body(kind, get, query, items, total) ==
    [kind |-> kind, get |-> get, query |-> query, items |-> items, total |-> total]

PostResponses(op, itemLists) ==
    {Body(k, FALSE, FALSE, <<>>, 0 - 1) : k \in {"exc", "500", "badbody"}}
        \cup {Body("ok", FALSE, q, <<>>, 0 - 1) :
                q \in IF NeedsQuery(op) THEN BOOLEAN ELSE {TRUE}}
        \cup {Body("ok", TRUE, FALSE, <<>>, 0 - 1) :
                q \in IF NeedsQuery(op) THEN {FALSE} ELSE {}}
        \cup UNION {{Body("ok", TRUE, TRUE, items, t) :
                        t \in IF NeedsQuery(op)
                              THEN {0 - 1, Len(items), Len(items) + 1}
                              ELSE {0 - 1}} : items \in itemLists}

\* _post, from the answer on: a RequestException and a status >= 400 are
\* plain FastmailTransportErrors, response.json() raises on a body that is
\* not JSON.
PostOutcome(body) ==
    CASE body.kind = "exc" -> Raise(TransportError("JMAP request failed"))
      [] body.kind = "500" -> Raise(TransportError("JMAP request failed with status"))
      [] body.kind = "badbody" -> Raise(PyError("JSONDecodeError", "response.json"))
      [] OTHER -> Return(body)

\* _parse_messages, _parse_contacts, _parse_events.
ParseList(op, body) ==
    IF ~body.get THEN Raise(TransportError(GetMethod(op) \o " response missing"))
    ELSE Return(ParseItems(body.items))

\* _parse_message_search_response, _parse_mailbox_response: the query entry
\* first, then the get entry.
ParsePage(op, body, limit) ==
    IF ~body.query THEN Raise(TransportError(QueryMethod(op) \o " response missing"))
    ELSE IF ~body.get THEN Raise(TransportError(GetMethod(op) \o " response missing"))
    ELSE Return([items |-> ParseItems(body.items), total |-> body.total,
                 position |-> 0, limit |-> limit])

\* _parse_message_get_response: an empty list is "Message not found".
ParseGet(op, body) ==
    IF ~body.get THEN Raise(TransportError(GetMethod(op) \o " response missing"))
    ELSE IF body.items = <<>> THEN Raise(TransportError("Message not found"))
    ELSE Return(<<ParseItem(body.items[1])>>)

\* The POST's answer by what the operation's parser makes of it.
Answer(op, body) ==
    CASE body.kind # "ok" -> body.kind
      [] NeedsQuery(op) /\ ~body.query -> "noquery"
      [] ~body.get -> "noget"
      [] body.items = <<>> -> "empty"
      [] OTHER -> "items"

\* list_messages .. list_events, from the POST's answer on.
TransportResult(op, limit, body) ==
    LET posted == PostOutcome(body)
    IN IF posted.kind = "raise" THEN posted
       ELSE CASE op \in ListOps -> ParseList(op, body)
              [] op = "get_message" -> ParseGet(op, body)
              [] OTHER -> ParsePage(op, body, limit)

\* ------------------------------------------------------------------ fixtures

\* The fixture file of a resource when it is read: missing, not JSON, JSON
\* but not a list, or a list of raw records.
Fixture(state, records) == [state |-> state, records |-> records]

FixtureStates(itemLists) ==
    {Fixture(st, <<>>) : st \in {"missing", "notjson", "notlist"}}
        \cup {Fixture("ok", r) : r \in itemLists}

\* _sample_payload / _read_sample_file.
ReadSampleFile(fx) ==
    CASE fx.state = "missing" -> Raise(PyError("FileNotFoundError", "Sample data missing"))
      [] fx.state = "notjson" -> Raise(PyError("JSONDecodeError", "json.load"))
      [] fx.state = "notlist" -> Raise(PyError("ValueError", "payload must be a list"))
      [] OTHER -> Return(fx.records)

\* _load_sample_messages, _load_sample_contacts, _load_sample_events.
LoadSample(resource, fx) ==
    LET payload == ReadSampleFile(fx)
    IN IF payload.kind = "raise" THEN payload
       ELSE FromJsonAll(resource, payload.value)

\* -------------------------------------------------------------------- facade

\* X.to_summary(): the sort field goes back to its ISO string.
ToSummary(key) == [f |-> "ok", k |-> key]
Summaries(keys) == [i \in 1..Len(keys) |-> ToSummary(keys[i])]

\* What a facade call does once its transport call has ended.  next: "done"
\* (out is returned or raised), "fixture" (the fixture file is read next) or
\* "again" (search starts the plain listing).  src names the source of the
\* records returned, records are the source's records before sorting.
Decision(next, out, src, records) ==
    [next |-> next, out |-> out, src |-> src, records |-> records]

Passed(t) == Decision("done", t, IF t.kind = "ok" THEN "live" ELSE "none", <<>>)

ToFixtures == Decision("fixture", Return(<<>>), "none", <<>>)

\* A listing that keeps the live records that parse when others do not.
ListRecentKeepsValid(resource, limit, t) ==
    IF t.kind = "raise"
    THEN (IF t.exc.cls = FTE THEN ToFixtures ELSE Passed(t))
    ELSE LET valid == SelectSeq(t.value, LAMBDA raw : FromJson(resource, raw).kind = "ok")
             kept == [i \in DOMAIN valid |-> FromJson(resource, valid[i]).value]
         IN Decision("done", Return(SortTrim(resource, kept, limit)), "live", kept)

\* A listing that falls back on whatever the transport raises.
ListRecentCatchAll(resource, limit, t) ==
    IF t.kind = "raise" THEN ToFixtures
    ELSE LET parsed == FromJsonAll(resource, t.value)
         IN IF parsed.kind = "ok"
            THEN Decision("done", Return(SortTrim(resource, parsed.value, limit)),
                          "live", parsed.value)
            ELSE ToFixtures

\* list_recent_messages, list_recent_contacts, list_upcoming_events, up to
\* the fallback: except FastmailTransportError around the transport call,
\* except (ValueError, KeyError) around the parsing of its records.
ListRecent(resource, limit, t) ==
    IF t.kind = "raise"
    THEN (IF t.exc.cls = FTE THEN ToFixtures ELSE Passed(t))
    ELSE LET parsed == FromJsonAll(resource, t.value)
         IN IF parsed.kind = "ok"
            THEN Decision("done", Return(SortTrim(resource, parsed.value, limit)),
                          "live", parsed.value)
            ELSE IF parsed.exc.cls \in {"ValueError", "KeyError"}
            THEN ToFixtures
            ELSE Decision("done", parsed, "none", <<>>)

\* A fallback that returns every fixture record.
FromFixturesUncut(resource, limit, fx) ==
    LET loaded == LoadSample(resource, fx)
    IN IF loaded.kind = "raise" THEN Decision("done", loaded, "none", <<>>)
       ELSE Decision("done", Return(PySorted(loaded.value, Descending(resource))),
                     "fixture", loaded.value)

\* The same calls from the fallback on: _load_sample_*(), sorted, [:limit].
FromFixtures(resource, limit, fx) ==
    LET loaded == LoadSample(resource, fx)
    IN IF loaded.kind = "raise" THEN Decision("done", loaded, "none", <<>>)
       ELSE Decision("done", Return(SortTrim(resource, loaded.value, limit)),
                     "fixture", loaded.value)

\* A fallback that reports position 0 whatever the offset asked for.
ReshapeFromStart(limit, offset, listed) ==
    IF listed.next # "done" \/ listed.out.kind # "ok" THEN listed
    ELSE [listed EXCEPT !.out =
            Return([items |-> Summaries(listed.out.value),
                    total |-> Len(listed.out.value),
                    position |-> 0, limit |-> limit])]

\* search_messages, the fallback's return value: the listing reshaped.
Reshape(limit, offset, listed) ==
    IF listed.next # "done" \/ listed.out.kind # "ok" THEN listed
    ELSE [listed EXCEPT !.out =
            Return([items |-> Summaries(listed.out.value),
                    total |-> Len(listed.out.value),
                    position |-> offset, limit |-> limit])]

\* FastmailClient.search_messages: the transport's result, or on a
\* FastmailTransportError the plain listing reshaped.
SearchMessages(k, t) ==
    IF ~k.fallback
    THEN (IF t.kind = "raise" /\ t.exc.cls = FTE
          THEN Decision("again", t, "none", <<>>)
          ELSE Passed(t))
    ELSE Reshape(k.limit, k.offset, ListRecent("messages", k.limit, t))

\* FastmailClient.list_mailboxes: one synthetic Inbox on a transport failure.
Inbox == [f |-> "inbox", k |-> 0]
ListMailboxes(k, t) ==
    IF t.kind = "raise" /\ t.exc.cls = FTE
    THEN Decision("done",
                  Return([items |-> <<Inbox>>, total |-> 1,
                          position |-> k.offset, limit |-> k.limit]),
                  "synthetic", <<>>)
    ELSE Passed(t)

\* A facade whose get-by-id falls back to the fixtures like a listing.
FacadeGetFallsBack(k, t) ==
    CASE k.top \in ListOps -> ListRecent(ResourceOf(k.top), k.limit, t)
      [] k.top = "search_messages" -> SearchMessages(k, t)
      [] k.top = "list_mailboxes" -> ListMailboxes(k, t)
      [] OTHER -> IF t.kind = "raise" /\ t.exc.cls = FTE THEN ToFixtures ELSE Passed(t)

\* FastmailClient.<top>, from the end of its transport call on.
Facade(k, t) ==
    CASE k.top \in ListOps -> ListRecent(ResourceOf(k.top), k.limit, t)
      [] k.top = "search_messages" -> SearchMessages(k, t)
      [] k.top = "list_mailboxes" -> ListMailboxes(k, t)
      [] OTHER -> Passed(t)

\* FastmailClient.<top>, from the read of the fixture file on.
FacadeFallback(k, fx) ==
    LET listed == FromFixtures(ResourceOf(k.top), k.limit, fx)
    IN IF k.top = "search_messages" THEN Reshape(k.limit, k.offset, listed)
       ELSE listed

\* ------------------------------------------------------------------ commands

\* commands.messages.list_messages, contacts.list_contacts,
\* events.list_events, from the client's answer on.
ListCommand(out) ==
    IF out.kind # "ok" THEN out
    ELSE Return([items |-> Summaries(out.value), count |-> Len(out.value)])

\* commands.messages.list_mailboxes, from the client's answer on: has_more
\* compares with the total, which raises TypeError when the total is None.
MailboxesCommand(out) ==
    IF out.kind # "ok" THEN ErrorDict("NetworkError", out.exc.msg)
    ELSE IF out.value.total < 0
    THEN ErrorDict("NetworkError", "'<' not supported between int and NoneType")
    ELSE Return([items |-> out.value.items, total |-> out.value.total,
                 has_more |-> out.value.position + Len(out.value.items) < out.value.total])

\* commands.messages.search_messages, from the client's answer on: the
\* summaries are built first (fromisoformat raises ValueError), then has_more
\* (TypeError when the total is None), then to_dict calls isoformat on every
\* received_at (AttributeError on None and on a value that is not a string).
SearchCommand(out) ==
    IF out.kind # "ok" THEN ReportFailure(out.exc)
    ELSE LET items == out.value.items
         IN IF \E i \in DOMAIN items : items[i].f = "unparsable"
            THEN ReportFailure(PyError("ValueError", "isoformat"))
            ELSE IF out.value.total < 0
            THEN ReportFailure(PyError("TypeError", "'<' not supported"))
            ELSE IF \E i \in DOMAIN items : items[i].f \in {"missing", "illtyped"}
            THEN ReportFailure(PyError("AttributeError", "isoformat"))
            ELSE Return([items |-> items, total |-> out.value.total,
                         has_more |-> out.value.position + Len(items) < out.value.total])

\* commands.messages.get_message, from the client's answer on: a received_at
\* that is a string is parsed, one that is missing is left out, any other
\* value fails in to_dict.
GetCommand(out) ==
    IF out.kind # "ok" THEN ReportFailure(out.exc)
    ELSE CASE out.value[1].f = "unparsable" ->
                 ReportFailure(PyError("ValueError", "isoformat"))
           [] out.value[1].f = "illtyped" ->
                 ReportFailure(PyError("AttributeError", "isoformat"))
           [] OTHER -> Return(out.value)

Command(op, out) ==
    CASE op \in ListOps -> ListCommand(out)
      [] op = "search_messages" -> SearchCommand(out)
      [] op = "get_message" -> GetCommand(out)
      [] OTHER -> MailboxesCommand(out)

\* What the layer the call was made at hands to its caller.
Outcome(k, d) ==
    IF k.layer = "command" /\ d.next = "done"
    THEN [d EXCEPT !.out = Command(k.top, d.out)]
    ELSE d

\* The whole call, at the layer it was made, once its transport call ended.
Decide(k, t) ==
    IF k.layer = "transport" THEN Passed(t) ELSE Outcome(k, Facade(k, t))

\* ---------------------------------------------------------------- dispatcher

\* The names handlers are registered under; a request can also name "b",
\* which is never registered.
Names == {"", "a"}

\* The "command" entry of a request object: absent, null or a string.
Field(kind, name) == [kind |-> kind, name |-> name]
Absent == Field("absent", "")
CommandFields ==
    {Absent, Field("null", "")} \cup {Field("str", n) : n \in Names \cup {"b"}}

\* The "params" entry: absent, an object, or a value that is not a mapping.
ParamKinds == {"absent", "object", "scalar"}

\* An input line by what json.loads makes of it: blank, not JSON, a JSON
\* number, string, list or null, or an object with its two entries.
Line(json, command, params) == [json |-> json, command |-> command, params |-> params]
NoLine == Line("blank", Absent, "absent")
Lines ==
    {Line(j, Absent, "absent") :
        j \in {"blank", "invalid", "number", "string", "list", "null"}}
        \cup {Line("object", f, p) : f \in CommandFields, p \in ParamKinds}

\* not command_name
Falsy(field) == field.kind # "str" \/ field.name = ""

\* A response: the "command" entry (Absent when there is none), the other
\* top-level key, the error's type, and whether json.dumps can encode it.
Response(command, key, etype, encodable) ==
    [command |-> command, key |-> key, etype |-> etype, encodable |-> encodable]
NoResponse == Response(Absent, "none", "", TRUE)

\* The handlers (with their descriptions) a registration can bind to a name.
Handlers == {"h1", "h2"}

\* self._commands, a dict from names to CommandDefinitions: empty at first.
NoCommands == [name \in {} |-> "h1"]

\* self._commands[name] = CommandDefinition(handler, description)
Bind(registry, name, handler) ==
    [n \in DOMAIN registry \cup {name} |-> IF n = name THEN handler ELSE registry[n]]

\* A registration that rebinds a name already registered.
register_commandRebinds(registry, name, handler) ==
    Return(Bind(registry, name, handler))

\* register_command: a name already registered raises ValueError, any other
\* name is bound; the value returned here is self._commands afterwards.
register_command(registry, name, handler) ==
    IF name \in DOMAIN registry
    THEN Raise(PyError("ValueError", "Command '" \o name \o "' is already registered"))
    ELSE Return(Bind(registry, name, handler))

\* A handle_call that goes on to the handler whatever the name is.
handle_callUnchecked(registry, name, params) ==
    IF params = "scalar" THEN Raise(PyError("TypeError", "dict(params)"))
    ELSE Return(<<"handler">>)

\* handle_call up to the call of the handler: an unknown name raises
\* KeyError, dict(params) raises TypeError on a value that is not a mapping.
handle_call(registry, name, params) ==
    IF name \notin DOMAIN registry
    THEN Raise(PyError("KeyError", "Unknown command: " \o name))
    ELSE IF params = "scalar" THEN Raise(PyError("TypeError", "dict(params)"))
    ELSE Return(<<"handler">>)

\* handle_request's two returns around handle_call.
ResultEnvelope(command, value) ==
    Response(command, "result", "", value # <<"object">>)

\* An error envelope that leaves the command out.
ErrorEnvelopeAnonymous(command, exc) == Response(Absent, "error", exc.cls, TRUE)

ErrorEnvelope(command, exc) == Response(command, "error", exc.cls, TRUE)

\* A handle_request without the check of the command name.
handle_requestUnchecked(registry, payload) ==
    IF payload.json # "object" THEN Raise(PyError("AttributeError", "get"))
    ELSE LET called == handle_call(registry, payload.command.name, payload.params)
         IN IF called.kind = "raise"
            THEN Return(<<ErrorEnvelope(payload.command, called.exc)>>)
            ELSE Return(<<>>)

\* handle_request up to the call of the handler.  payload.get is outside the
\* try: on a payload that is not an object it raises AttributeError.
handle_request(registry, payload) ==
    IF payload.json # "object" THEN Raise(PyError("AttributeError", "get"))
    ELSE IF Falsy(payload.command)
    THEN Return(<<Response(Absent, "error", "InvalidRequest", TRUE)>>)
    ELSE LET called == handle_call(registry, payload.command.name, payload.params)
         IN IF called.kind = "raise"
            THEN Return(<<ErrorEnvelope(payload.command, called.exc)>>)
            ELSE Return(<<>>)

\* How a handler ends: it returns a value json.dumps encodes, returns one it
\* does not encode, or raises.
HandlerOutcomes ==
    {Return(<<"json">>), Return(<<"object">>),
     Raise(PyError("RuntimeError", "handler")), Raise(TransportError("handler"))}

\* ----------------------------------------------------------- the write tool

\* str.lower()
Lower(s) ==
    LET low(ch) ==
          CASE ch = "A" -> "a" [] ch = "B" -> "b" [] ch = "C" -> "c"
            [] ch = "D" -> "d" [] ch = "E" -> "e" [] ch = "F" -> "f"
            [] ch = "G" -> "g" [] ch = "H" -> "h" [] ch = "I" -> "i"
            [] ch = "J" -> "j" [] ch = "K" -> "k" [] ch = "L" -> "l"
            [] ch = "M" -> "m" [] ch = "N" -> "n" [] ch = "O" -> "o"
            [] ch = "P" -> "p" [] ch = "Q" -> "q" [] ch = "R" -> "r"
            [] ch = "S" -> "s" [] ch = "T" -> "t" [] ch = "U" -> "u"
            [] ch = "V" -> "v" [] ch = "W" -> "w" [] ch = "X" -> "x"
            [] ch = "Y" -> "y" [] ch = "Z" -> "z" [] OTHER -> ch
        RECURSIVE lower(_)
        lower(n) == IF n = 0 THEN "" ELSE lower(n - 1) \o low(SubSeq(s, n, n))
    IN lower(Len(s))

\* FASTMAIL_ENABLE_WRITE_TOOLS in os.environ: unset (<<>>) or set to a text.
WriteFlags == {<<>>, <<"true">>, <<"TRUE">>, <<"false">>, <<"1">>, <<"">>}

\* _is_write_enabled: os.environ.get(..., "").lower() == "true"
is_write_enabled(flag) == Lower(IF flag = <<>> THEN "" ELSE flag[1]) = "true"

COMMAND_MESSAGES_SEND == "messages-send"

\* commands.messages.register on a server without commands: four
\* registrations, and the one of the send command under the flag.
register(registry, flag) ==
    LET RECURSIVE all(_, _)
        all(reg, names) ==
          IF names = <<>> \/ reg.kind = "raise" THEN reg
          ELSE all(register_command(reg.value, Head(names), "h1"), Tail(names))
    IN all(Return(registry),
           <<"messages-list", "messages-search", "messages-get", "mailboxes-list">>
              \o (IF is_write_enabled(flag) THEN <<COMMAND_MESSAGES_SEND>> ELSE <<>>))

\* The arguments of send_message: the recipients, the subject and the two
\* bodies, an optional one being <<>> when it is None.
SendRequests ==
    [to : {<<>>, <<"x@y">>}, subject : {"", "s"},
     body_text : {<<>>, <<"">>, <<"t">>}, body_html : {<<>>, <<"">>, <<"h">>}]

\* MessageSendRequest.__post_init__
MessageSendRequest(req) ==
    IF req.to = <<>> THEN Raise(PyError("ValueError", "to field is required"))
    ELSE IF req.subject = "" THEN Raise(PyError("ValueError", "subject is required"))
    ELSE IF req.body_text \in {<<>>, <<"">>} /\ req.body_html \in {<<>>, <<"">>}
    THEN Raise(PyError("ValueError", "either body_text or body_html is required"))
    ELSE Return(req)

\* What send_message returns besides an error object.
SendResult(success) ==
    [kind |-> "ok", message_id |-> "placeholder-id", success |-> success,
     note |-> "Email sending not yet implemented. Placeholder response only."]

\* A send_message that reports the message as sent.
send_messageSends(flag, req) ==
    IF ~is_write_enabled(flag)
    THEN ErrorDict("PermissionDenied", "Write operations are disabled")
    ELSE LET made == MessageSendRequest(req)
         IN IF made.kind = "raise" THEN ReportFailure(made.exc)
            ELSE SendResult(TRUE)

\* send_message, with the flag as the environment holds it at the call.
send_message(flag, req) ==
    IF ~is_write_enabled(flag)
    THEN ErrorDict("PermissionDenied", "Write operations are disabled")
    ELSE LET made == MessageSendRequest(req)
         IN IF made.kind = "raise" THEN ReportFailure(made.exc)
            ELSE SendResult(FALSE)

\* ----------------------------------------------------------- the mail filter

\* datetime.isoformat() of the two dates of this model.
isoformat(d) == IF d = 1 THEN "2024-01-01T00:00:00" ELSE "2024-01-31T00:00:00"

\* The DateRange objects there are: __post_init__ rejects a start after the
\* end.  A bound that is None is <<>>.
DateRanges ==
    {r \in [start : {<<>>, <<1>>, <<2>>}, end : {<<>>, <<1>>, <<2>>}] :
        r.start # <<>> /\ r.end # <<>> => r.start[1] <= r.end[1]}

\* The MailFilter objects: a field that is None is <<>>.
MailFilters ==
    [sender : {<<>>, <<"">>, <<"a@b.com">>},
     subject : {<<>>, <<"">>, <<"Important">>},
     mailbox : {<<>>, <<"">>, <<"INBOX">>},
     read : {<<>>, <<TRUE>>, <<FALSE>>},
     date_range : {<<>>} \cup {<<r>> : r \in DateRanges},
     has_attachment : {<<>>, <<TRUE>>, <<FALSE>>}]

\* The value the filter takes for a key; <<>> would be a null.
FilterValue(f, key) ==
    CASE key = "from" -> f.sender
      [] key = "subject" -> f.subject
      [] key = "inMailbox" -> f.mailbox
      [] key = "isUnread" -> <<~f.read[1]>>
      [] key = "hasAttachment" -> f.has_attachment
      [] key = "after" -> <<isoformat(f.date_range[1].start[1])>>
      [] key = "before" -> <<isoformat(f.date_range[1].end[1])>>

\* A conversion that tests has_attachment as it tests the strings.
to_jmap_filterByTruth(f) ==
    LET text(v) == v # <<>> /\ v[1] # ""
        keys == {key \in {"from", "subject", "inMailbox", "isUnread",
                          "hasAttachment", "after", "before"} :
                   CASE key = "from" -> text(f.sender)
                     [] key = "subject" -> text(f.subject)
                     [] key = "inMailbox" -> text(f.mailbox)
                     [] key = "isUnread" -> f.read # <<>>
                     [] key = "hasAttachment" -> f.has_attachment = <<TRUE>>
                     [] key = "after" ->
                          f.date_range # <<>> /\ f.date_range[1].start # <<>>
                     [] key = "before" ->
                          f.date_range # <<>> /\ f.date_range[1].end # <<>>}
    IN [key \in keys |-> FilterValue(f, key)]

\* MailFilter.to_jmap_filter: "if self.sender:" and its like test the truth of
\* a string (None and "" are false), read and has_attachment are tested with
\* "is not None", the date range and its bounds by their truth (an object and
\* a datetime are true).
to_jmap_filter(f) ==
    LET text(v) == v # <<>> /\ v[1] # ""
        keys == {key \in {"from", "subject", "inMailbox", "isUnread",
                          "hasAttachment", "after", "before"} :
                   CASE key = "from" -> text(f.sender)
                     [] key = "subject" -> text(f.subject)
                     [] key = "inMailbox" -> text(f.mailbox)
                     [] key = "isUnread" -> f.read # <<>>
                     [] key = "hasAttachment" -> f.has_attachment # <<>>
                     [] key = "after" ->
                          f.date_range # <<>> /\ f.date_range[1].start # <<>>
                     [] key = "before" ->
                          f.date_range # <<>> /\ f.date_range[1].end # <<>>}
    IN [key \in keys |-> FilterValue(f, key)]

\* -------------------------------------------------------------- cli.verify

\* How one of verify's three transport calls ends for the capability: it
\* returns, or raises what the transport raises (the capability error of
\* _account_for, the errors of the discovery and of the RPC call, the decoding
\* error of a response body), or the error the CLI's test transport raises.
CheckOutcomes(capability) ==
    {Return(<<>>),
     Raise(capability_error(capability)),
     Raise(TransportError("Capability " \o capability \o " unavailable for this account")),
     Raise(auth_error("Authentication failed - check credentials")),
     Raise(network_error("Failed to reach Fastmail session endpoint")),
     Raise(PyError("JSONDecodeError", "response.json"))}

\* _is_capability_missing: both texts occur in str(error).lower()
is_capability_missing(error) ==
    LET message == Lower(error.msg)
        has(part) == \E i \in 1..(Len(message) - Len(part) + 1) :
                        SubSeq(message, i, i + Len(part) - 1) = part
    IN has("capability") /\ has("unavailable for this account")

\* _verify_optional: except FastmailTransportError; any other exception
\* leaves the function.
verify_optional(outcome) ==
    IF outcome.kind = "raise"
    THEN (IF outcome.exc.cls # FTE THEN outcome
          ELSE Return(is_capability_missing(outcome.exc)))
    ELSE Return(TRUE)

\* The runs of verify: whether FASTMAIL_TOKEN is set, whether the credentials
\* are the placeholders, and how the three transport calls end.
VerifyRuns ==
    [token : BOOLEAN, placeholder : BOOLEAN,
     mail : CheckOutcomes(JMAP_MAIL_CAPABILITY),
     contacts : CheckOutcomes(JMAP_CONTACTS_CAPABILITY),
     events : CheckOutcomes(JMAP_CALENDAR_CAPABILITY)]

\* verify: the exit code it returns, or the exception that leaves it.
verify(run) ==
    IF ~run.token /\ run.placeholder THEN Return(1)
    ELSE IF run.mail.kind = "raise"
    THEN (IF run.mail.exc.cls = FTE THEN Return(1) ELSE run.mail)
    ELSE LET contacts == verify_optional(run.contacts)
             events == verify_optional(run.events)
         IN IF contacts.kind = "raise" THEN contacts
            ELSE IF events.kind = "raise" THEN events
            ELSE Return(IF ~contacts.value \/ ~events.value THEN 1 ELSE 0)

\* --------------------------------------------------------------------- state

Contexts == {"A", "B"}

VARIABLES
    profile,      \* what a run covers: "session", "facade", "tcp", "stream" or "conn" (see the Inits)
    api_url,      \* JMAPTransport._api_url
    account_ids,  \* JMAPTransport._account_ids
    pc,           \* where each context is in its call
    call,         \* each context's call in progress
    hold,         \* the session document a context holds in _ensure_session
    res,          \* each context's last finished call: <<>> or <<record>>
    gets,         \* discovery GETs issued on the transport
    posts,        \* RPC POSTs issued on the transport
    okOps,        \* transport operations that returned
    failedOps,    \* transport operations that raised
    started,      \* calls started
    discovered,   \* the sessions that discoveries have delivered
    phase,        \* main: "startup", "serving" or "aborted"
    commands,     \* FastmailMCPServer._commands: name -> handler
    spc,          \* where each context is in handle_stream
    ahead,        \* the next unread line of each context's input, <<>> at its end
    cur,          \* the line each context is handling
    response,     \* the response each context is about to write
    nread,        \* lines each context has read
    nonblank,     \* non-blank lines among them
    nwritten,     \* response lines each context has written
    invoked,      \* the non-blank line for which a handler was last invoked
    badjson,      \* the non-blank line last found not to be JSON
    tool          \* the last call of a function outside the two: its input and result

clientVars == <<api_url, account_ids, pc, call, hold, res, gets, posts,
                okOps, failedOps, started, discovered>>

streamVars == <<phase, commands, spc, ahead, cur, response, nread, nonblank,
                nwritten, invoked, badjson>>

vars == <<profile, clientVars, streamVars, tool>>

\* stdio mode handles its requests in one context, TCP mode in one context
\* per connection.
Active == IF profile \in {"tcp", "conn"} THEN Contexts ELSE {"A"}

\* The record lists the backend and the fixture files hold: all of them when a
\* run follows one call through the facade, the empty list and one record
\* when it follows a series of calls through the session.
ItemLists ==
    IF profile = "facade" THEN RawLists ELSE {<<>>, <<[f |-> "ok", k |-> 1]>>}

\* The offsets and the page-size limits a run passes: one call through the
\* facade takes every offset where the operation has one (a command takes a
\* negative one too, the facade is handed a PaginationRequest or the
\* command's checked values) and, as a command, the limits around the largest
\* page; the other runs pass the default offset.
Offsets(layer, op) ==
    IF profile = "facade" /\ op \in PagedOps /\ layer # "transport"
    THEN (IF layer = "command" THEN {0 - 1, 0, MaxOffset} ELSE {0, MaxOffset})
    ELSE {0}

PagedLimits(layer, op) ==
    IF profile = "facade" /\ op \in PagedOps /\ layer = "command"
    THEN PageLimits ELSE {}

\* The limits and offsets of all calls of a run.
EntryLimits ==
    CASE profile = "facade" -> ((0 - 1)..MaxLimit) \cup PageLimits
      [] profile = "tcp" -> {1}
      [] OTHER -> (0 - 1)..1

EntryOffsets == IF profile = "facade" THEN {0 - 1, 0, MaxOffset} ELSE {0}

\* The calls a run makes.  One call through the facade takes every limit; a
\* series of calls, whose lists hold one record at most, the limits up to 1,
\* each call made at the transport or as a command;
\* where contexts interleave, the calls are the transport's operations with
\* the limit 1 (the layers above the transport touch no shared state).
Entries ==
    {e \in [layer : Layers, op : Ops, limit : EntryLimits, offset : EntryOffsets] :
        /\ e.limit \in Limits(e.op) \cup PagedLimits(e.layer, e.op)
        /\ e.offset \in Offsets(e.layer, e.op)
        /\ e.layer = "command" => e.op \in CommandOps
        /\ profile = "session" => e.limit <= 1 /\ e.layer # "facade"
        /\ profile = "tcp" => e.layer = "transport" /\ e.limit = 1}

\* Calls one run starts: one through the facade, one per connection, or a
\* series.
CallBudget ==
    IF profile = "facade" THEN 1
    ELSE IF profile = "tcp" THEN Cardinality(Contexts)
    ELSE MaxCalls

NoCall == [kind |-> "none", exc |-> PyError("None", ""), value |-> <<>>]
NoDoc == Doc(NoneUrl, FALSE, {})
NoFixture == Fixture("unread", <<>>)
NoTool == [name |-> "none", input |-> <<>>, output |-> <<>>]

\* A call: the layer it entered at, the operation asked for (top) and the
\* transport operation running (op), how many GETs and POSTs it has issued,
\* the account id and the endpoint its POST used, how its transport call
\* ended (live, without the payload) and how the facade's parsing of the
\* payload ended (parsed: "" when it parsed nothing, "ok" or the exception's
\* class), how the session discovery it ran last ended (disc: "" when it ran
\* none) and what its last POST was answered (answer: "" without a POST).
NewCall(layer, op, limit, offset) ==
    [layer |-> layer, top |-> op, op |-> op, limit |-> limit, offset |-> offset,
     fallback |-> FALSE, nget |-> 0, npost |-> 0, acct |-> "", url |-> NoneUrl,
     live |-> NoCall, parsed |-> "", disc |-> "", answer |-> ""]

\* [X.from_json(item) for item in live_payload], as the facade's listings run
\* it on what the transport returned.
LiveParse(k, t) ==
    IF k.layer # "transport" /\ (k.top \in ListOps \/ k.fallback) /\ t.kind = "ok"
    THEN LET parsed == FromJsonAll(ResourceOf(k.top), t.value)
         IN IF parsed.kind = "ok" THEN "ok" ELSE parsed.exc.cls
    ELSE ""

IdleCall == NewCall("transport", "get_message", 1, 0)

Result(k, d, fx) ==
    [call |-> k, out |-> d.out, src |-> d.src, records |-> d.records, fx |-> fx]

Idle ==
    /\ pc = [c \in Contexts |-> "idle"]
    /\ call = [c \in Contexts |-> IdleCall]
    /\ hold = [c \in Contexts |-> NoDoc]
    /\ res = [c \in Contexts |-> <<>>]
    /\ gets = 0
    /\ posts = 0
    /\ okOps = 0
    /\ failedOps = 0
    /\ started = 0
    /\ discovered = {}
    /\ phase = "startup"
    /\ commands = NoCommands
    /\ spc = [c \in Contexts |-> "read"]
    /\ ahead = [c \in Contexts |-> <<>>]
    /\ cur = [c \in Contexts |-> NoLine]
    /\ response = [c \in Contexts |-> NoResponse]
    /\ nread = [c \in Contexts |-> 0]
    /\ nonblank = [c \in Contexts |-> 0]
    /\ nwritten = [c \in Contexts |-> 0]
    /\ invoked = [c \in Contexts |-> 0]
    /\ badjson = [c \in Contexts |-> 0]
    /\ tool = NoTool

\* One context, a new transport, a series of calls.
Init ==
    /\ profile = "session"
    /\ api_url = NoneUrl
    /\ account_ids = NoneIds
    /\ Idle

\* One context, a new transport, one call with every record list.
InitFacade ==
    /\ profile = "facade"
    /\ api_url = NoneUrl
    /\ account_ids = NoneIds
    /\ Idle

\* One context, a new dispatcher, one input stream.
InitStream ==
    /\ profile = "stream"
    /\ api_url = NoneUrl
    /\ account_ids = NoneIds
    /\ Idle

\* One context per connection, a new transport shared by them.
InitTcp ==
    /\ profile = "tcp"
    /\ api_url = NoneUrl
    /\ account_ids = NoneIds
    /\ Idle

\* A new dispatcher, and the functions that are called beside it.
InitTools ==
    /\ profile = "tools"
    /\ api_url = NoneUrl
    /\ account_ids = NoneIds
    /\ Idle

\* One context per connection, a new dispatcher shared by them.
InitConn ==
    /\ profile = "conn"
    /\ api_url = NoneUrl
    /\ account_ids = NoneIds
    /\ Idle

\* The end of a transport operation of context c with outcome t: the layers
\* above it run to their return, to the read of the fixture file, or to the
\* start of the search's fallback listing.
Finish(c, k, t) ==
    LET d == Decide(k, t)
        ended == [k EXCEPT !.live = [t EXCEPT !.value = <<>>],
                           !.parsed = LiveParse(k, t)]
    IN
    /\ okOps' = IF t.kind = "ok" THEN okOps + 1 ELSE okOps
    /\ failedOps' = IF t.kind = "ok" THEN failedOps ELSE failedOps + 1
    /\ CASE d.next = "again" ->
              /\ pc' = [pc EXCEPT ![c] = "ensure"]
              /\ call' = [call EXCEPT ![c] =
                            [ended EXCEPT !.op = "list_messages", !.fallback = TRUE]]
              /\ res' = res
         [] d.next = "fixture" ->
              /\ pc' = [pc EXCEPT ![c] = "fixture"]
              /\ call' = [call EXCEPT ![c] = ended]
              /\ res' = res
         [] OTHER ->
              /\ pc' = [pc EXCEPT ![c] = "idle"]
              /\ call' = [call EXCEPT ![c] = ended]
              /\ res' = [res EXCEPT ![c] = <<Result(ended, d, NoFixture)>>]

\* A call enters at one of the three layers.  The command's own check and the
\* builder's limit check come before any access to the session.
Begin(c) ==
    /\ c \in Active
    /\ pc[c] = "idle"
    /\ started < CallBudget
    /\ started' = started + 1
    /\ \E e \in Entries :
         LET k == NewCall(e.layer, e.op, e.limit, e.offset)
             checked == IF e.layer = "command"
                        THEN CommandCheck(e.op, e.limit, e.offset)
                        ELSE Return(<<>>)
             built == BuildCheck(e.op, e.limit)
         IN IF checked.kind # "ok"
            THEN /\ res' = [res EXCEPT ![c] =
                          <<Result(k, Decision("done", checked, "none", <<>>), NoFixture)>>]
                 /\ call' = [call EXCEPT ![c] = k]
                 /\ UNCHANGED <<pc, okOps, failedOps>>
            ELSE IF built.kind # "ok"
            THEN Finish(c, k, built)
            ELSE /\ pc' = [pc EXCEPT ![c] = "ensure"]
                 /\ call' = [call EXCEPT ![c] = k]
                 /\ res' = [res EXCEPT ![c] = <<>>]
                 /\ UNCHANGED <<okOps, failedOps>>
    /\ UNCHANGED <<profile, api_url, account_ids, hold, gets, posts, discovered>>
    /\ UNCHANGED <<streamVars, tool>>

\* _ensure_session, its first line: a cache hit returns at once.
EnsureSession(c) ==
    /\ pc[c] = "ensure"
    /\ pc' = [pc EXCEPT ![c] =
                IF Resolved(api_url, account_ids) THEN "lookup" ELSE "get"]
    /\ UNCHANGED <<profile, api_url, account_ids, call, hold, res, gets, posts,
                   okOps, failedOps, started, discovered>>
    /\ UNCHANGED <<streamVars, tool>>

\* _ensure_session, the discovery GET and the checks of its answer.
SessionGet(c) ==
    /\ pc[c] = "get"
    /\ gets' = gets + 1
    /\ \E r \in DiscoveryResponses :
         LET failed == r.kind # "doc" \/ ~r.doc.isDict \/ r.doc.apiUrl = NoneUrl
             k == [call[c] EXCEPT !.nget = @ + 1,
                                  !.disc = IF r.kind # "doc" THEN r.kind
                                           ELSE IF failed THEN "nofields"
                                           ELSE "doc"]
             failure ==
                CASE r.kind = "exc" ->
                        Raise(network_error("Failed to obtain JMAP session"))
                  [] r.kind = "401" -> Raise(auth_error("Authentication failed"))
                  [] r.kind = "500" ->
                        Raise(network_error("JMAP session discovery failed with status"))
                  [] r.kind = "badbody" ->
                        Raise(PyError("JSONDecodeError", "response.json"))
                  [] ~r.doc.isDict \/ r.doc.apiUrl = NoneUrl ->
                        Raise(TransportError("Unable to locate JMAP account information"))
                  [] OTHER -> Return(<<>>)
         IN IF failure.kind = "raise"
            THEN Finish(c, k, failure) /\ hold' = hold
            ELSE /\ hold' = [hold EXCEPT ![c] = r.doc]
                 /\ pc' = [pc EXCEPT ![c] = "store_ids"]
                 /\ call' = [call EXCEPT ![c] = k]
                 /\ UNCHANGED <<res, okOps, failedOps>>
    /\ UNCHANGED <<profile, api_url, account_ids, posts, started, discovered>>
    /\ UNCHANGED <<streamVars, tool>>

\* self._account_ids = {...}
StoreAccountIds(c) ==
    /\ pc[c] = "store_ids"
    /\ account_ids' = Ids(FilterAccounts(hold[c]))
    /\ pc' = [pc EXCEPT ![c] = "check_ids"]
    /\ UNCHANGED <<profile, api_url, call, hold, res, gets, posts, okOps,
                   failedOps, started, discovered>>
    /\ UNCHANGED <<streamVars, tool>>

\* if not self._account_ids: raise
CheckAccountIds(c) ==
    /\ pc[c] = "check_ids"
    /\ IF account_ids.map = {}
         THEN /\ Finish(c, [call[c] EXCEPT !.disc = "noaccounts"],
                        Raise(TransportError("No JMAP accounts available")))
              /\ hold' = [hold EXCEPT ![c] = NoDoc]
         ELSE /\ pc' = [pc EXCEPT ![c] = "store_url"]
              /\ UNCHANGED <<call, hold, res, okOps, failedOps>>
    /\ UNCHANGED <<profile, api_url, account_ids, gets, posts, started,
                   discovered>>
    /\ UNCHANGED <<streamVars, tool>>

\* self._api_url = str(api_url), and _ensure_session returns.
StoreApiUrl(c) ==
    /\ pc[c] = "store_url"
    /\ api_url' = hold[c].apiUrl
    /\ discovered' = discovered \cup
                        {[url |-> hold[c].apiUrl, map |-> FilterAccounts(hold[c])]}
    /\ hold' = [hold EXCEPT ![c] = NoDoc]
    /\ pc' = [pc EXCEPT ![c] = "lookup"]
    /\ call' = [call EXCEPT ![c].disc = "resolved"]
    /\ UNCHANGED <<profile, account_ids, res, gets, posts, okOps,
                   failedOps, started>>
    /\ UNCHANGED <<streamVars, tool>>

\* _account_for, after _ensure_session has returned.
AccountFor(c) ==
    /\ pc[c] = "lookup"
    /\ LET capability == CapabilityOf(call[c].op)
             account_id == AccountGet(account_ids.map, capability)
         IN IF account_ids.none
            THEN Finish(c, call[c], Raise(PyError("AssertionError", "_account_ids")))
            ELSE IF account_id = ""
            THEN Finish(c, call[c], Raise(capability_error(capability)))
            ELSE /\ call' = [call EXCEPT ![c].acct = account_id]
                 /\ pc' = [pc EXCEPT ![c] = "post"]
                 /\ UNCHANGED <<res, okOps, failedOps>>
    /\ UNCHANGED <<profile, api_url, account_ids, hold, gets, posts, started,
                   discovered>>
    /\ UNCHANGED <<streamVars, tool>>

\* _post and the parsing of its answer.
Post(c) ==
    /\ pc[c] = "post"
    /\ IF api_url = NoneUrl
         THEN /\ Finish(c, call[c], Raise(PyError("AssertionError", "_api_url")))
              /\ posts' = posts
         ELSE /\ posts' = posts + 1
              /\ \E body \in PostResponses(call[c].op, ItemLists) :
                   Finish(c, [call[c] EXCEPT !.npost = @ + 1, !.url = api_url,
                                             !.answer = Answer(call[c].op, body)],
                          TransportResult(call[c].op, call[c].limit, body))
    /\ UNCHANGED <<profile, api_url, account_ids, hold, gets, started, discovered>>
    /\ UNCHANGED <<streamVars, tool>>

\* The facade's fallback: the fixture file is read, in whatever state it is.
ReadFixture(c) ==
    /\ pc[c] = "fixture"
    /\ \E fx \in FixtureStates(ItemLists) :
         res' = [res EXCEPT ![c] =
                   <<Result(call[c], Outcome(call[c], FacadeFallback(call[c], fx)), fx)>>]
    /\ pc' = [pc EXCEPT ![c] = "idle"]
    /\ UNCHANGED <<profile, api_url, account_ids, call, hold, gets, posts, okOps,
                   failedOps, started, discovered>>
    /\ UNCHANGED <<streamVars, tool>>

\* The steps of a call inside the transport, and all its steps.
TransportStep(c) ==
    \/ Begin(c)
    \/ EnsureSession(c)
    \/ SessionGet(c)
    \/ StoreAccountIds(c)
    \/ CheckAccountIds(c)
    \/ StoreApiUrl(c)
    \/ AccountFor(c)
    \/ Post(c)

Step(c) == TransportStep(c) \/ ReadFixture(c)

Next == \E c \in Contexts : Step(c)

NextTcp == \E c \in Contexts : TransportStep(c)

Spec == Init /\ [][Next]_vars

SpecFacade == InitFacade /\ [][Next]_vars

SpecTcp == InitTcp /\ [][NextTcp]_vars

\* ------------------------------------------------------------ the dispatcher

\* The lines a connection carries where connections interleave: one that is
\* not JSON, a JSON number, a request for the name "a" and one for the name
\* "b", which is never registered.
ConnLines ==
    {Line("invalid", Absent, "absent"), Line("number", Absent, "absent"),
     Line("object", Field("str", "a"), "object"),
     Line("object", Field("str", "b"), "absent")}

\* The unread rest of an input of which n lines have been handed out; a
\* connection that runs beside another one carries one line less.
Inputs(n) ==
    LET lines == IF profile = "conn" THEN ConnLines ELSE Lines
        most == IF profile = "conn" THEN MaxLines - 1 ELSE MaxLines
    IN IF n < most THEN {<<>>} \cup {<<l>> : l \in lines} ELSE {<<>>}

\* The handlers a run registers: where connections interleave, one.
Registrable == IF profile = "conn" THEN {"h1"} ELSE Handlers

\* main: register_all registers the commands one by one; a ValueError from
\* register_command ends main before anything is served.
RegisterCommand ==
    /\ phase = "startup"
    /\ \E name \in Names, handler \in Registrable :
         LET registered == register_command(commands, name, handler)
         IN IF registered.kind = "raise"
            THEN phase' = "aborted" /\ commands' = commands
            ELSE phase' = phase /\ commands' = registered.value
    /\ UNCHANGED <<profile, tool, clientVars, spc, ahead, cur, response, nread,
                   nonblank, nwritten, invoked, badjson>>

\* main: serve_forever, with whatever stands on the input.
ServeForever ==
    /\ phase = "startup"
    /\ phase' = "serving"
    /\ \E first \in Inputs(0) : ahead' = [ahead EXCEPT !["A"] = first]
    /\ UNCHANGED <<profile, tool, clientVars, commands, spc, cur, response, nread,
                   nonblank, nwritten, invoked, badjson>>

\* main in TCP mode: serve_tcp accepts the connections, and each one is handed
\* to handle_stream in a thread of its own, with whatever the peer sends.
ServeTcp ==
    /\ phase = "startup"
    /\ phase' = "serving"
    /\ \E first \in [Contexts -> Inputs(0)] : ahead' = first
    /\ UNCHANGED <<profile, tool, clientVars, commands, spc, cur, response, nread,
                   nonblank, nwritten, invoked, badjson>>

\* A loop that takes the next line while a response is still to be written.
ReadLineEarly(c) ==
    /\ c \in Active
    /\ phase = "serving"
    /\ spc[c] \in {"read", "write"}
    /\ IF ahead[c] = <<>>
         THEN /\ spc' = [spc EXCEPT ![c] = "eof"]
              /\ UNCHANGED <<ahead, cur, nread, nonblank>>
         ELSE /\ nread' = [nread EXCEPT ![c] = @ + 1]
              /\ \E rest \in Inputs(nread[c] + 1) : ahead' = [ahead EXCEPT ![c] = rest]
              /\ IF ahead[c][1].json = "blank"
                   THEN UNCHANGED <<spc, cur, nonblank>>
                   ELSE /\ spc' = [spc EXCEPT ![c] = "request"]
                        /\ cur' = [cur EXCEPT ![c] = ahead[c][1]]
                        /\ nonblank' = [nonblank EXCEPT ![c] = @ + 1]
    /\ UNCHANGED <<profile, tool, clientVars, phase, commands, response, nwritten,
                   invoked, badjson>>

\* handle_stream, the head of its loop: the next line, stripped; a blank
\* line is skipped; at the end of the input the loop ends.
ReadLine(c) ==
    /\ c \in Active
    /\ phase = "serving"
    /\ spc[c] = "read"
    /\ IF ahead[c] = <<>>
         THEN /\ spc' = [spc EXCEPT ![c] = "eof"]
              /\ UNCHANGED <<ahead, cur, nread, nonblank>>
         ELSE /\ nread' = [nread EXCEPT ![c] = @ + 1]
              /\ \E rest \in Inputs(nread[c] + 1) : ahead' = [ahead EXCEPT ![c] = rest]
              /\ IF ahead[c][1].json = "blank"
                   THEN UNCHANGED <<spc, cur, nonblank>>
                   ELSE /\ spc' = [spc EXCEPT ![c] = "request"]
                        /\ cur' = [cur EXCEPT ![c] = ahead[c][1]]
                        /\ nonblank' = [nonblank EXCEPT ![c] = @ + 1]
    /\ UNCHANGED <<profile, tool, clientVars, phase, commands, response, nwritten,
                   invoked, badjson>>

\* handle_stream's json.loads and handle_request up to the call of the
\* handler.  An exception that leaves handle_request leaves handle_stream.
HandleRequest(c) ==
    /\ spc[c] = "request"
    /\ IF cur[c].json = "invalid"
         THEN /\ response' = [response EXCEPT ![c] =
                                Response(Absent, "error", "InvalidJSON", TRUE)]
              /\ spc' = [spc EXCEPT ![c] = "write"]
              /\ badjson' = [badjson EXCEPT ![c] = nonblank[c]]
              /\ UNCHANGED invoked
         ELSE LET handled == handle_request(commands, cur[c])
              IN /\ badjson' = badjson
                 /\ CASE handled.kind = "raise" ->
                           /\ spc' = [spc EXCEPT ![c] = "crashed"]
                           /\ UNCHANGED <<response, invoked>>
                      [] handled.value = <<>> ->
                           /\ spc' = [spc EXCEPT ![c] = "handler"]
                           /\ invoked' = [invoked EXCEPT ![c] = nonblank[c]]
                           /\ UNCHANGED response
                      [] OTHER ->
                           /\ spc' = [spc EXCEPT ![c] = "write"]
                           /\ response' = [response EXCEPT ![c] = handled.value[1]]
                           /\ UNCHANGED invoked
    /\ UNCHANGED <<profile, tool, clientVars, phase, commands, ahead, cur, nread,
                   nonblank, nwritten>>

\* A handler's end that leaves the envelope where every connection's loop
\* takes its response from.
HandlerReturnsShared(c) ==
    /\ spc[c] = "handler"
    /\ \E o \in HandlerOutcomes :
         response' = [d \in Contexts |->
                        IF o.kind = "raise" THEN ErrorEnvelope(cur[c].command, o.exc)
                        ELSE ResultEnvelope(cur[c].command, o.value)]
    /\ spc' = [spc EXCEPT ![c] = "write"]
    /\ UNCHANGED <<profile, tool, clientVars, phase, commands, ahead, cur, nread,
                   nonblank, nwritten, invoked, badjson>>

\* The handler ends and handle_request builds its envelope: except Exception
\* catches whatever the handler raises.
HandlerReturns(c) ==
    /\ spc[c] = "handler"
    /\ \E o \in HandlerOutcomes :
         response' = [response EXCEPT ![c] =
                        IF o.kind = "raise" THEN ErrorEnvelope(cur[c].command, o.exc)
                        ELSE ResultEnvelope(cur[c].command, o.value)]
    /\ spc' = [spc EXCEPT ![c] = "write"]
    /\ UNCHANGED <<profile, tool, clientVars, phase, commands, ahead, cur, nread,
                   nonblank, nwritten, invoked, badjson>>

\* writer.write(json.dumps(response) + "\n"); writer.flush().  json.dumps
\* raises TypeError on a value it does not encode, outside any try.
WriteResponse(c) ==
    /\ spc[c] = "write"
    /\ IF response[c].encodable
         THEN /\ nwritten' = [nwritten EXCEPT ![c] = @ + 1]
              /\ spc' = [spc EXCEPT ![c] = "read"]
         ELSE /\ spc' = [spc EXCEPT ![c] = "crashed"]
              /\ UNCHANGED nwritten
    /\ UNCHANGED <<profile, tool, clientVars, phase, commands, ahead, cur, response,
                   nread, nonblank, invoked, badjson>>

StreamStep(c) ==
    \/ ReadLine(c)
    \/ HandleRequest(c)
    \/ HandlerReturns(c)
    \/ WriteResponse(c)

NextStream ==
    \/ RegisterCommand
    \/ ServeForever
    \/ \E c \in Contexts : StreamStep(c)

SpecStream == InitStream /\ [][NextStream]_vars

NextConn ==
    \/ RegisterCommand
    \/ ServeTcp
    \/ \E c \in Contexts : StreamStep(c)

SpecConn == InitConn /\ [][NextConn]_vars

\* ------------------------------------------------------------------ tools

\* register_all's call of commands.messages.register, with the write flag as
\* the environment holds it then.
RegisterMessages ==
    /\ phase = "startup"
    /\ commands = NoCommands
    /\ \E flag \in WriteFlags :
         LET registered == register(commands, flag)
         IN /\ IF registered.kind = "raise"
                 THEN phase' = "aborted" /\ commands' = commands
                 ELSE phase' = phase /\ commands' = registered.value
            /\ tool' = [name |-> "register", input |-> flag, output |-> <<>>]
    /\ UNCHANGED <<profile, clientVars, spc, ahead, cur, response, nread,
                   nonblank, nwritten, invoked, badjson>>

\* A call of send_message, with the write flag as the environment holds it
\* now.  The functions called beside the dispatcher keep nothing between
\* calls: a run follows one call.
SendMessage ==
    /\ tool.name \in {"none", "register"}
    /\ \E flag \in WriteFlags, req \in SendRequests :
         tool' = [name |-> "send_message", input |-> [flag |-> flag, req |-> req],
                  output |-> send_message(flag, req)]
    /\ UNCHANGED <<profile, clientVars, streamVars>>

\* A call of to_jmap_filter on a filter.
ToJmapFilter ==
    /\ tool.name \in {"none", "register"}
    /\ \E f \in MailFilters :
         tool' = [name |-> "to_jmap_filter", input |-> f, output |-> to_jmap_filter(f)]
    /\ UNCHANGED <<profile, clientVars, streamVars>>

\* A run of cli.verify.
Verify ==
    /\ tool.name \in {"none", "register"}
    /\ \E run \in VerifyRuns :
         tool' = [name |-> "verify", input |-> run, output |-> verify(run)]
    /\ UNCHANGED <<profile, clientVars, streamVars>>

NextTools ==
    \/ RegisterMessages
    \/ SendMessage
    \/ ToJmapFilter
    \/ Verify

SpecTools == InitTools /\ [][NextTools]_vars

\* ==================================================================== claims

Min(a, b) == IF a < b THEN a ELSE b

\* How often x occurs in seq.
Count(seq, x) == Cardinality({i \in DOMAIN seq : seq[i] = x})

\* a may come before b in the resource's order.
InOrder(resource, a, b) == IF resource = "messages" THEN a >= b ELSE a <= b

\* out holds the first min(limit, n) of the n records in the resource's order.
FirstInOrder(resource, out, records, limit) ==
    /\ Len(out) = Min(limit, Len(records))
    /\ \A i, j \in DOMAIN out : i < j => InOrder(resource, out[i], out[j])
    /\ \A x \in 0..MaxKey :
         /\ Count(out, x) <= Count(records, x)
         /\ Count(out, x) < Count(records, x) =>
               \A i \in DOMAIN out : InOrder(resource, out[i], x)

\* The fixture file is present, a JSON list, and each record has what the
\* resource's from_json needs.
FixtureUsable(resource, fx) ==
    /\ fx.state = "ok"
    /\ \A i \in DOMAIN fx.records :
         CASE resource = "messages" -> fx.records[i].f = "ok"
           [] resource = "events" -> fx.records[i].f \in {"ok", "noid"}
           [] OTHER -> TRUE

\* The sort fields of the fixture file's records.
FixtureKeys(resource, fx) ==
    [i \in DOMAIN fx.records |->
        IF resource = "contacts" /\ fx.records[i].f = "missing" THEN 0
        ELSE fx.records[i].k]

\* The finished call of context c is a plain listing made at the facade.
PlainListing(c) ==
    /\ res[c] # <<>>
    /\ res[c][1].call.layer = "facade"
    /\ res[c][1].call.top \in ListOps

\* The line is a request: an object that names a command, with usable params.
ValidRequest(line) ==
    /\ line.json = "object"
    /\ line.command.kind = "str"
    /\ line.command.name # ""
    /\ line.params # "scalar"

\* The line is an envelope without command: absent, null or empty.
NoCommand(line) ==
    /\ line.json = "object"
    /\ \/ line.command.kind \in {"absent", "null"}
       \/ line.command.kind = "str" /\ line.command.name = ""

\* C1: handle_stream never stops before the end of its input: whatever a
\* non-blank line holds and however a handler ends, the loop never dies, and
\* whenever it is back at reading (or at the end of the input) it has written
\* exactly one response line for every non-blank line read.
C1_StreamNeverStops ==
    \A c \in Contexts :
       /\ spc[c] # "crashed"
       /\ spc[c] \in {"read", "eof"} => nwritten[c] = nonblank[c]

\* C1: the loop has died on a line holding a JSON number, with input unread.
C1_CrashOnNumber ==
    /\ spc["A"] = "crashed"
    /\ cur["A"].json = "number"
    /\ ahead["A"] # <<>>
    /\ nwritten["A"] < nonblank["A"]

\* C2: a line that is not JSON is answered with InvalidJSON and no handler is
\* invoked for it, and every request line that follows it on the stream is
\* still dispatched and answered: after such a line the loop never dies on a
\* request line, nor with a request line left unread.
C2_InvalidJsonThenRequests ==
    \A c \in Contexts :
       /\ (spc[c] = "write" /\ cur[c].json = "invalid") =>
             /\ response[c] = Response(Absent, "error", "InvalidJSON", TRUE)
             /\ invoked[c] # nonblank[c]
       /\ (badjson[c] > 0 /\ spc[c] = "crashed") =>
             /\ ~ValidRequest(cur[c])
             /\ ahead[c] # <<>> => ~ValidRequest(ahead[c][1])

\* C2: after a line that was not JSON, the loop has died on a line that is
\* not an object while the next line of the input is a request.
C2_RequestLeftUnread ==
    /\ badjson["A"] > 0
    /\ spc["A"] = "crashed"
    /\ cur["A"].json \in {"number", "string", "list", "null"}
    /\ ahead["A"] # <<>>
    /\ ValidRequest(ahead["A"][1])

\* C3: an envelope without command (absent, null or empty) is answered with
\* InvalidRequest, as a value: handle_request raises nothing, no handler is
\* invoked for it, whatever is registered and whatever its params are.
C3_NoCommandIsInvalidRequest ==
    \A c \in Contexts :
       (NoCommand(cur[c]) /\ nonblank[c] > 0 /\ spc[c] # "request") =>
          /\ spc[c] \in {"write", "read", "eof"}
          /\ response[c] = Response(Absent, "error", "InvalidRequest", TRUE)
          /\ invoked[c] # nonblank[c]

\* C3: an envelope whose command is the empty string, with params, is being
\* answered while a handler is registered under the empty name.
C3_EmptyNameRegistered ==
    /\ spc["A"] = "write"
    /\ cur["A"].json = "object"
    /\ cur["A"].command = Field("str", "")
    /\ cur["A"].params = "object"
    /\ "" \in DOMAIN commands
    /\ response["A"].etype = "InvalidRequest"

C5_TransportFailureGivesFixtures ==
    \A c \in Contexts :
       PlainListing(c) =>
          LET r == res[c][1]
              k == r.call
              resource == ResourceOf(k.top)
          IN (/\ k.live.kind = "raise"
              /\ k.live.exc.cls = FTE
              /\ FixtureUsable(resource, r.fx)) =>
                 /\ r.out.kind = "ok"
                 /\ r.src = "fixture"
                 /\ r.records = FixtureKeys(resource, r.fx)
                 /\ FirstInOrder(resource, r.out.value, FixtureKeys(resource, r.fx),
                                 k.limit)

\* C5: a contact listing whose live call ended with a capability error has
\* returned its limit of records from a longer fixture file.
C5_CapabilityErrorFellBack ==
    /\ PlainListing("A")
    /\ res["A"][1].call.top = "list_contacts"
    /\ res["A"][1].call.live.kind = "raise"
    /\ res["A"][1].call.live.exc.etype = "CapabilityError"
    /\ res["A"][1].out.kind = "ok"
    /\ Len(res["A"][1].out.value) = 1
    /\ Len(res["A"][1].fx.records) = 2

\* C6: a plain listing that returns, for a limit > 0 and the n records of the
\* source it chose, returns exactly min(limit, n) records, the first ones in
\* the resource's order: messages newest first, contacts by name, events by
\* start.
C6_SortedAndCut ==
    \A c \in Contexts :
       (PlainListing(c) /\ res[c][1].out.kind = "ok") =>
          LET r == res[c][1]
          IN /\ r.call.limit > 0
             /\ r.src \in {"live", "fixture"}
             /\ FirstInOrder(ResourceOf(r.call.top), r.out.value, r.records,
                             r.call.limit)

\* C6: a message listing with limit 1 has returned the newer of two live
\* records that arrived oldest first.
C6_NewestOfTwo ==
    /\ PlainListing("A")
    /\ res["A"][1].call.top = "list_messages"
    /\ res["A"][1].call.limit = 1
    /\ res["A"][1].src = "live"
    /\ res["A"][1].records = <<1, 2>>
    /\ res["A"][1].out.value = <<2>>

\* The outcome is a validation failure: a ValueError raised or a
\* ValidationError reported.
ValidationFailure(out) ==
    \/ out.kind = "raise" /\ out.exc.cls = "ValueError"
    \/ out.kind = "error" /\ out.exc.etype = "ValidationError"

\* C7: a call with a limit <= 0 to a listing or search operation of the
\* transport or to a list command ends at once with a validation failure: no
\* discovery GET and no RPC POST is issued and the cached session is left as
\* it was.
C7_NonPositiveLimitFailsValidation ==
    [][(/\ started' = started + 1
        /\ call'["A"].limit <= 0
        /\ call'["A"].layer \in {"transport", "command"}) =>
           /\ pc'["A"] = "idle"
           /\ res'["A"] # <<>>
           /\ ValidationFailure(res'["A"][1].out)
           /\ gets' = gets
           /\ posts' = posts
           /\ api_url' = api_url
           /\ account_ids' = account_ids]_vars

\* C7: the mailboxes-list command, called with limit 0 on an unresolved
\* session, has ended without a network call and reports a NetworkError.
C7_MailboxesReportNetworkError ==
    /\ res["A"] # <<>>
    /\ res["A"][1].call.layer = "command"
    /\ res["A"][1].call.top = "list_mailboxes"
    /\ res["A"][1].call.limit = 0
    /\ res["A"][1].out.kind = "error"
    /\ res["A"][1].out.exc.etype = "NetworkError"
    /\ gets = 0
    /\ posts = 0

\* C8: in sequential use, once a discovery has succeeded the cache holds its
\* session for good and no operation starts another discovery, so that a run
\* of k >= 1 successful operations has issued one discovery GET and k POSTs.
C8_OneDiscoveryPerTransport ==
    /\ Cardinality(discovered) <= 1
    /\ discovered # {} =>
          /\ [url |-> api_url, map |-> account_ids.map] \in discovered
          /\ pc["A"] \notin {"get", "store_ids", "check_ids", "store_url"}
    /\ (failedOps = 0 /\ okOps >= 1) => gets = 1 /\ posts = okOps

\* C8: two operations have succeeded one after the other on one discovery.
C8_TwoOperationsOneDiscovery ==
    /\ pc["A"] = "idle"
    /\ okOps >= 2
    /\ failedOps = 0
    /\ gets = 1
    /\ posts = okOps

\* C9: when two contexts resolve the session concurrently and each discovery
\* is answered with a usable session, the cache holds one complete session,
\* an endpoint with its own account mapping, and every POST goes to an
\* endpoint with an account of that endpoint's mapping.
C9_ConcurrentResolutionIsAtomic ==
    (/\ failedOps = 0
     /\ \A c \in Contexts : hold[c] = NoDoc \/ FilterAccounts(hold[c]) # {}
     /\ \A s \in discovered : s.map # {}) =>
        /\ api_url # NoneUrl => [url |-> api_url, map |-> account_ids.map] \in discovered
        /\ \A c \in Contexts :
              (res[c] # <<>> /\ res[c][1].call.npost > 0) =>
                 \E s \in discovered :
                    /\ s.url = res[c][1].call.url
                    /\ <<CapabilityOf(res[c][1].call.op), res[c][1].call.acct>> \in s.map

\* C9: both contexts have resolved the session without a failure, and the
\* cache holds the endpoint of one session with the accounts of the other.
C9_TornSession ==
    /\ failedOps = 0
    /\ pc["A"] \in {"lookup", "post", "idle"}
    /\ pc["B"] \in {"lookup", "post", "idle"}
    /\ call["A"].nget = 1
    /\ call["B"].nget = 1
    /\ Cardinality(discovered) = 2
    /\ api_url # NoneUrl
    /\ [url |-> api_url, map |-> account_ids.map] \notin discovered

\* C10: once a successful discovery has populated the account mapping, no
\* step changes, replaces or empties it.
C10_MappingNeverChanges ==
    [][discovered # {} => account_ids' = account_ids]_vars

\* C10: a discovery that had started concurrently and found no usable account
\* has emptied the mapping of a session already resolved.
C10_MappingEmptied ==
    /\ discovered # {}
    /\ api_url # NoneUrl
    /\ account_ids = Ids({})

\* The finished call of context c was made at the given layer for the given
\* operation.
Finished(c, layer, top) ==
    /\ res[c] # <<>>
    /\ res[c][1].call.layer = layer
    /\ res[c][1].call.top = top

\* C11: FastmailClient.get_message has no fallback: when the transport's
\* get-by-id raises a transport failure (discovery or POST failure, capability
\* error, Email/get missing, message not found), the facade raises that same
\* failure, kind and message unchanged; a get-by-id never reads a fixture file
\* and returns nothing but the transport's record.
C11_GetByIdPropagatesUnchanged ==
    \A c \in Contexts :
       /\ (call[c].layer = "facade" /\ call[c].top = "get_message") =>
             pc[c] # "fixture"
       /\ Finished(c, "facade", "get_message") =>
             LET r == res[c][1]
             IN /\ r.fx = NoFixture
                /\ r.src # "fixture"
                /\ (r.call.live.kind = "raise" /\ r.call.live.exc.cls = FTE) =>
                      r.out = Raise(r.call.live.exc)
                /\ r.out.kind = "ok" =>
                      r.call.live.kind = "ok" /\ r.src = "live"

\* C11: a get-by-id made at the facade was answered with an empty Email/get
\* list and has raised the transport's "Message not found".
C11_NotFoundPropagated ==
    /\ Finished("A", "facade", "get_message")
    /\ res["A"][1].call.answer = "empty"
    /\ res["A"][1].out = Raise(TransportError("Message not found"))

\* The finished call of context c is a search made at the facade whose
\* transport search raised a transport failure.
SearchFellBack(c) ==
    /\ Finished(c, "facade", "search_messages")
    /\ res[c][1].call.fallback

\* The sort fields of a list of summaries.
SummaryKeys(items) == [i \in DOMAIN items |-> items[i].k]

\* C12, as claimed: search_messages does not raise on a transport failure, it
\* returns the plain listing reshaped.
C12_SearchNeverRaises ==
    \A c \in Contexts : SearchFellBack(c) => res[c][1].out.kind = "ok"

\* C12, amended: on a transport failure of the search, search_messages ends
\* as the plain listing for pagination.limit ends.  It returns exactly when
\* the listing returns (its live call returned and parsed, or fell back on a
\* usable fixture file), and then {messages: the listing's summaries, newest
\* first and cut to the limit, total: their number, position: the offset
\* asked for, limit: the limit asked for}; it raises whatever the listing
\* raises.  The only fixture read is the listing's.
C12_SearchDegradesToListing ==
    \A c \in Contexts :
       SearchFellBack(c) =>
          LET r == res[c][1]
              k == r.call
              fellBack == \/ k.live.kind = "raise" /\ k.live.exc.cls = FTE
                          \/ k.parsed \in {"ValueError", "KeyError"}
          IN /\ r.out.kind \in {"ok", "raise"}
             /\ r.out.kind = "ok" <=>
                   \/ k.live.kind = "ok" /\ k.parsed = "ok"
                   \/ fellBack /\ FixtureUsable("messages", r.fx)
             /\ r.fx # NoFixture <=> fellBack
             /\ r.out.kind = "ok" =>
                   /\ r.src = (IF fellBack THEN "fixture" ELSE "live")
                   /\ fellBack => r.records = FixtureKeys("messages", r.fx)
                   /\ FirstInOrder("messages", SummaryKeys(r.out.value.items),
                                   r.records, k.limit)
                   /\ r.out.value.total = Len(r.out.value.items)
                   /\ r.out.value.position = k.offset
                   /\ r.out.value.limit = k.limit

\* C12: a search with offset 1 and limit 1 whose search and listing both fell
\* back has returned one of the two records of the fixture file, at the
\* position asked for.
C12_FellBackOnFixtures ==
    /\ SearchFellBack("A")
    /\ res["A"][1].call.offset = 1
    /\ res["A"][1].call.limit = 1
    /\ res["A"][1].fx.state = "ok"
    /\ Len(res["A"][1].fx.records) = 2
    /\ res["A"][1].out.kind = "ok"
    /\ res["A"][1].out.value.total = 1
    /\ res["A"][1].out.value.position = 1

\* Context c is inside a listing, search or list-mailboxes request made above
\* the transport, and a transport call of that request has raised a
\* transport failure.
FailedAtFacade(c) ==
    /\ pc[c] # "idle"
    /\ call[c].layer # "transport"
    /\ call[c].top \in ListOps \cup {"search_messages", "list_mailboxes"}
    /\ call[c].live.kind = "raise"
    /\ call[c].live.exc.cls = FTE

\* C13: once a transport call of a listing, search or list-mailboxes request
\* has raised a transport failure, the request issues no further discovery
\* GET and no further RPC POST: the fallback does not re-attempt the network.
C13_NoNetworkAfterFailure ==
    [][\A c \in Contexts :
          FailedAtFacade(c) => gets' = gets /\ posts' = posts]_vars

\* C13: a search made at the facade has issued a second POST, the listing's,
\* after its first POST was answered with a failure.
C13_PostAfterFailedPost ==
    /\ Finished("A", "facade", "search_messages")
    /\ res["A"][1].call.fallback
    /\ res["A"][1].call.nget = 1
    /\ res["A"][1].call.npost = 2

\* The finished call of context c is a transport operation that ended in its
\* session discovery, which failed.
DiscoveryFailed(c) ==
    /\ res[c] # <<>>
    /\ res[c][1].call.layer = "transport"
    /\ res[c][1].call.disc \in {"exc", "401", "500", "nofields", "noaccounts"}

\* C14: a failed session discovery raises a transport failure of one of three
\* kinds: NetworkError when the GET could not be made or timed out,
\* AuthenticationError on a 401, and the generic kind on any other status
\* >= 400 and on a session without the API endpoint or without a non-empty
\* mapping of primary accounts.
C14_DiscoveryFailureKinds ==
    \A c \in Contexts :
       DiscoveryFailed(c) =>
          LET r == res[c][1]
          IN /\ r.out.kind = "raise"
             /\ r.out.exc.cls = FTE
             /\ r.call.npost = 0
             /\ r.call.disc = "exc" => r.out.exc.etype = "NetworkError"
             /\ r.call.disc = "401" => r.out.exc.etype = "AuthenticationError"
             /\ r.call.disc \in {"500", "nofields", "noaccounts"} =>
                   r.out.exc.etype = "TransportError"

\* C14: a discovery answered with status 500 has raised a NetworkError.
C14_Status500IsNetworkError ==
    /\ DiscoveryFailed("A")
    /\ res["A"][1].call.disc = "500"
    /\ res["A"][1].out.kind = "raise"
    /\ res["A"][1].out.exc.etype = "NetworkError"
    /\ gets = 1

\* The kinds a get-by-id made at the given layer ends with when its POST
\* fails, is answered with a status >= 400, or is answered without Email/get.
OtherGetFailureKinds(layer) ==
    {Decide(NewCall(layer, "get_message", 1, 0),
            TransportResult("get_message", 1, b)).out.exc.etype :
        b \in {x \in PostResponses("get_message", ItemLists) :
                  Answer("get_message", x) \in {"exc", "500", "noget"}}}

\* C15: a get-by-id whose batch response holds Email/get with an empty list
\* ends, at the transport, the facade and the get command, with a failure of
\* the NotFound kind, a kind that no response without Email/get and no
\* network or HTTP-status failure ends with.
C15_NotFoundIsItsOwnKind ==
    \A c \in Contexts :
       (/\ res[c] # <<>>
        /\ res[c][1].call.top = "get_message"
        /\ res[c][1].call.answer = "empty") =>
           /\ res[c][1].out.kind \in {"raise", "error"}
           /\ res[c][1].out.exc.etype = "NotFound"
           /\ res[c][1].out.exc.etype \notin OtherGetFailureKinds(res[c][1].call.layer)

\* C15: the get command, answered with an empty Email/get list, has reported
\* a NetworkError, as it does for a response without Email/get.
C15_NotFoundReportedAsNetworkError ==
    /\ Finished("A", "command", "get_message")
    /\ res["A"][1].call.answer = "empty"
    /\ res["A"][1].out.kind = "error"
    /\ res["A"][1].out.exc.etype = "NetworkError"
    /\ "NetworkError" \in OtherGetFailureKinds("command")

\* The pagination values that construction must refuse.
BadPage(limit, offset) == limit <= 0 \/ limit > 100 \/ offset < 0

\* C16: PaginationRequest fails exactly for limit <= 0, limit > 100 or
\* offset < 0 (the defaults 10 and 0 are accepted), and a command that takes
\* pagination (messages-search, mailboxes-list) called with such values
\* reports an error of the ValidationError kind without any client or network
\* call.
C16_BadPaginationIsValidationError ==
    /\ PaginationRequest(10, 0).kind = "ok"
    /\ \A c \in Contexts :
          (/\ res[c] # <<>>
           /\ res[c][1].call.layer = "command"
           /\ res[c][1].call.top \in PagedOps) =>
              LET r == res[c][1]
                  k == r.call
              IN /\ PaginationRequest(k.limit, k.offset).kind = "raise" <=>
                       BadPage(k.limit, k.offset)
                 /\ BadPage(k.limit, k.offset) =>
                       /\ r.out.kind = "error"
                       /\ r.out.exc.etype = "ValidationError"
                       /\ k.nget = 0
                       /\ k.npost = 0
                       /\ k.live = NoCall
                       /\ r.fx = NoFixture

\* C16: the mailboxes-list command, called with limit 101 and offset -1, has
\* made no call and reports a NetworkError.
C16_MailboxesPageReportedAsNetworkError ==
    /\ Finished("A", "command", "list_mailboxes")
    /\ res["A"][1].call.limit = MaxPageLimit + 1
    /\ res["A"][1].call.offset = 0 - 1
    /\ res["A"][1].call.live = NoCall
    /\ res["A"][1].out.kind = "error"
    /\ res["A"][1].out.exc.etype = "NetworkError"
    /\ gets = 0
    /\ posts = 0

\* In the registry as it stands, register_command raises ValueError for
\* every name that is registered and binds every name that is not.
RegistrationChecked ==
    \A name \in Names, handler \in Handlers :
       LET registered == register_command(commands, name, handler)
       IN IF name \in DOMAIN commands
          THEN registered = Raise(PyError("ValueError",
                                "Command '" \o name \o "' is already registered"))
          ELSE /\ registered.kind = "ok"
               /\ DOMAIN registered.value = DOMAIN commands \cup {name}
               /\ registered.value[name] = handler

\* A step keeps every binding of the registry, changes the registry during
\* startup only, leaves it as it is when startup is aborted, never leaves
\* the aborted startup, and reads, dispatches and answers while serving only.
RegistrationStep ==
    /\ \A name \in DOMAIN commands :
          name \in DOMAIN commands' /\ commands'[name] = commands[name]
    /\ commands' # commands => phase = "startup" /\ phase' = "startup"
    /\ phase' = "aborted" => commands' = commands
    /\ phase = "aborted" => phase' = "aborted"
    /\ (nread' # nread \/ nwritten' # nwritten \/ invoked' # invoked \/ spc' # spc) =>
          phase = "serving" /\ phase' = "serving"

\* C17: register_command fails for a name already registered and leaves the
\* registry as it was, the first handler and description bound to the name;
\* every registration is made during startup, a failed one aborts startup,
\* and no line is read and no request served before startup has completed.
C17_DuplicateRegistrationAborts ==
    []RegistrationChecked /\ [][RegistrationStep]_vars

\* C17: startup has been aborted by a second registration of "a"; the name
\* is bound to the first handler and nothing has been read or written.
C17_AbortedOnDuplicate ==
    /\ phase = "aborted"
    /\ "a" \in DOMAIN commands
    /\ commands["a"] = "h1"
    /\ nread["A"] = 0
    /\ nwritten["A"] = 0
    /\ spc["A"] = "read"

\* The line is a request that names a command the registry does not hold.
UnknownCommand(line) ==
    /\ line.json = "object"
    /\ line.command.kind = "str"
    /\ line.command.name # ""
    /\ line.command.name \notin DOMAIN commands

\* C18: handle_call raises KeyError, Python's lookup failure, for a name that
\* is not in the registry, whatever the params are, and invokes no handler;
\* handle_request answers such a request with the error envelope {command:
\* the name, error: {type: "KeyError", message}} and never with a result.
C18_UnknownCommandIsErrorEnvelope ==
    /\ \A name \in (Names \cup {"b"}) \ DOMAIN commands, params \in ParamKinds :
          handle_call(commands, name, params) =
             Raise(PyError("KeyError", "Unknown command: " \o name))
    /\ \A c \in Contexts :
          (UnknownCommand(cur[c]) /\ nonblank[c] > 0 /\ spc[c] # "request") =>
             /\ spc[c] \in {"write", "read", "eof"}
             /\ response[c] = Response(cur[c].command, "error", "KeyError", TRUE)
             /\ invoked[c] # nonblank[c]

\* C18: with a handler registered as "a", a request for "b" is being answered
\* with the KeyError envelope that names "b".
C18_UnknownNameAnswered ==
    /\ spc["A"] = "write"
    /\ "a" \in DOMAIN commands
    /\ cur["A"].json = "object"
    /\ cur["A"].command = Field("str", "b")
    /\ cur["A"].params = "object"
    /\ response["A"] = Response(Field("str", "b"), "error", "KeyError", TRUE)
    /\ invoked["A"] = 0

\* The line names no command: it is not a JSON object, or an object whose
\* command is absent, null or empty.
LacksCommand(line) == line.json # "object" \/ Falsy(line.command)

\* C19: every response the dispatcher writes has exactly one of the keys
\* result and error, an error carries a type, and the response carries the
\* command name of the request it answers unless that request named none.
C19_ResponseShape ==
    \A c \in Contexts :
       (spc[c] = "write" /\ response[c].encodable) =>
          /\ response[c].key \in {"result", "error"}
          /\ response[c].key = "error" <=> response[c].etype # ""
          /\ IF LacksCommand(cur[c])
                THEN response[c].command = Absent /\ response[c].key = "error"
                ELSE response[c].command = cur[c].command

\* C19: a handler registered as "a" has raised a transport failure, and the
\* error envelope about to be written names "a" and the failure's class.
C19_HandlerFailureNamesCommand ==
    /\ spc["A"] = "write"
    /\ invoked["A"] = nonblank["A"]
    /\ cur["A"].command = Field("str", "a")
    /\ response["A"] = Response(Field("str", "a"), "error", FTE, TRUE)

\* One step of the loop of context c: a line is read only when every
\* non-blank line read before has its response written; a blank line is
\* passed over without a response; a handler is invoked for the current
\* non-blank line only, and after the responses to all lines before it; a
\* response is written for the current non-blank line, one line for one
\* request, before anything else is read.
SequentialStep(c) ==
    /\ nread'[c] # nread[c] =>
          /\ spc[c] = "read"
          /\ nread'[c] = nread[c] + 1
          /\ nwritten[c] = nonblank[c]
          /\ nwritten'[c] = nwritten[c]
          /\ IF ahead[c][1].json = "blank"
                THEN nonblank'[c] = nonblank[c] /\ spc'[c] = "read"
                ELSE nonblank'[c] = nonblank[c] + 1 /\ cur'[c] = ahead[c][1]
    /\ nread'[c] = nread[c] => nonblank'[c] = nonblank[c] /\ cur'[c] = cur[c]
    /\ invoked'[c] # invoked[c] =>
          /\ invoked'[c] = nonblank[c]
          /\ nwritten[c] = nonblank[c] - 1
    /\ nwritten'[c] # nwritten[c] =>
          /\ nwritten'[c] = nwritten[c] + 1
          /\ nwritten'[c] = nonblank[c]
          /\ nread'[c] = nread[c]
          /\ response[c].command \in {cur[c].command, Absent}
          /\ spc'[c] = "read"

\* C20: in stdio mode the requests are handled one after another: the k-th
\* response written answers the k-th non-blank line, it is written before
\* the next line is read, the handler of a request never starts before the
\* response to the request before it is written, and a blank line gets no
\* response.
C20_StrictlySequential ==
    [][SequentialStep("A")]_vars

\* C20: three lines were read, a request, a blank line and another request;
\* the handler of the second request is running and one response is written.
C20_SecondRequestAfterFirstResponse ==
    /\ spc["A"] = "handler"
    /\ nread["A"] = 3
    /\ nonblank["A"] = 2
    /\ invoked["A"] = 2
    /\ nwritten["A"] = 1

\* What handle_stream keeps for the connection of context c.
Connection(c) ==
    <<spc[c], ahead[c], cur[c], response[c], nread[c], nonblank[c], nwritten[c],
      invoked[c], badjson[c]>>

\* resp is a response to the line: the InvalidJSON error for a line that is
\* not JSON, the InvalidRequest error for an object without a command, and an
\* envelope with the line's command otherwise (an error one when the command
\* is not registered).
Answers(line, resp) ==
    CASE line.json = "invalid" -> resp = Response(Absent, "error", "InvalidJSON", TRUE)
      [] NoCommand(line) -> resp = Response(Absent, "error", "InvalidRequest", TRUE)
      [] OTHER ->
           /\ line.json = "object"
           /\ resp.command = line.command
           /\ resp.key \in {"result", "error"}
           /\ line.command.name \notin DOMAIN commands =>
                 resp.key = "error" /\ resp.etype = "KeyError"

\* While requests are served, a step belongs to one connection and leaves what
\* the others keep alone; a response it writes is the connection's next one,
\* for the non-blank line read last on it; and it leaves the registry alone.
ConnectionStep ==
    phase = "serving" =>
       /\ commands' = commands
       /\ \E c \in Contexts :
            /\ \A d \in Contexts \ {c} : Connection(d)' = Connection(d)
            /\ nwritten'[c] # nwritten[c] =>
                  /\ nwritten'[c] = nonblank[c]
                  /\ nwritten[c] + 1 = nonblank[c]
                  /\ Answers(cur[c], response[c])

\* A connection whose loop has not ended can take its next step, wherever the
\* others are; a response about to be written answers the connection's line.
ConnectionFree ==
    \A c \in Contexts :
       /\ phase = "serving" /\ spc[c] \in {"read", "request", "handler", "write"} =>
             ENABLED StreamStep(c)
       /\ spc[c] = "write" => Answers(cur[c], response[c])

\* C21: in TCP mode, under every interleaving of the connections' loops, each
\* response written to a connection answers the request line read last from
\* that connection, in the order of its requests; a connection goes on
\* whatever the handlers of the others do (block, raise, end the loop); and
\* serving requests never changes the command registry.
C21_ConnectionsAreIndependent == []ConnectionFree /\ [][ConnectionStep]_vars

\* C21: connection A waits in a handler that has not returned, while
\* connection B has read two requests and written the response to each, the
\* last one for a command that is not registered.
C21_AnsweredBesideBlockedHandler ==
    /\ spc["A"] = "handler"
    /\ nwritten["A"] = 0
    /\ spc["B"] = "read"
    /\ nwritten["B"] = 2
    /\ nonblank["B"] = 2
    /\ cur["B"].command.name = "b"
    /\ response["B"].etype = "KeyError"

\* The write flag is true: set to "true" in any letter case.
WriteEnabled(flag) == flag \in {<<"true">>, <<"TRUE">>}

\* A send request with a recipient, a subject and a body.
Sendable(req) ==
    /\ req.to # <<>>
    /\ req.subject # ""
    /\ req.body_text \notin {<<>>, <<"">>} \/ req.body_html \notin {<<>>, <<"">>}

\* C22: the send command is registered exactly when the write flag is true at
\* registration, and send_message never reports success = true: with the flag
\* true at the call and a recipient, a subject and a body it returns
\* success = false with a note, with the flag true and one of the three
\* missing a ValidationError, and with the flag not true a PermissionDenied
\* error.
C22_SendIsAPlaceholder ==
    /\ tool.name = "register" =>
          (COMMAND_MESSAGES_SEND \in DOMAIN commands <=> WriteEnabled(tool.input))
    /\ tool.name = "send_message" =>
          LET out == tool.output
              enabled == WriteEnabled(tool.input.flag)
          IN /\ out.kind \in {"ok", "error"}
             /\ out.kind = "ok" => out.success = FALSE /\ out.note # ""
             /\ ~enabled => out.kind = "error" /\ out.exc.etype = "PermissionDenied"
             /\ enabled /\ Sendable(tool.input.req) => out.kind = "ok"
             /\ enabled /\ ~Sendable(tool.input.req) =>
                   out.kind = "error" /\ out.exc.etype = "ValidationError"

\* C22: with the flag set to "TRUE", a message with a recipient, a subject and
\* an HTML body only was answered success = false.
C22_PlaceholderReturned ==
    /\ tool.name = "send_message"
    /\ tool.input.flag = <<"TRUE">>
    /\ tool.input.req.body_text = <<>>
    /\ tool.input.req.body_html = <<"h">>
    /\ tool.output.kind = "ok"
    /\ tool.output.success = FALSE

\* The keys and values of the filter object, given which of the three text
\* predicates count as set.
FilterObjectIs(f, out, sender, subject, mailbox) ==
    LET range == f.date_range
    IN /\ "from" \in DOMAIN out <=> sender
       /\ sender => out["from"] = f.sender
       /\ "subject" \in DOMAIN out <=> subject
       /\ subject => out["subject"] = f.subject
       /\ "inMailbox" \in DOMAIN out <=> mailbox
       /\ mailbox => out["inMailbox"] = f.mailbox
       /\ "isUnread" \in DOMAIN out <=> f.read # <<>>
       /\ f.read = <<TRUE>> => out["isUnread"] = <<FALSE>>
       /\ f.read = <<FALSE>> => out["isUnread"] = <<TRUE>>
       /\ "hasAttachment" \in DOMAIN out <=> f.has_attachment # <<>>
       /\ f.has_attachment # <<>> => out["hasAttachment"] = f.has_attachment
       /\ "after" \in DOMAIN out <=> range # <<>> /\ range[1].start # <<>>
       /\ "before" \in DOMAIN out <=> range # <<>> /\ range[1].end # <<>>
       /\ DOMAIN out \subseteq {"from", "subject", "inMailbox", "isUnread",
                                 "hasAttachment", "after", "before"}
       /\ \A key \in DOMAIN out : out[key] # <<>>

\* C23 as stated: the filter object has exactly the keys of the predicates
\* that are set (not None), each with its value, and no null.
C23_KeysOfSetPredicates ==
    tool.name = "to_jmap_filter" =>
       FilterObjectIs(tool.input, tool.output, tool.input.sender # <<>>,
                      tool.input.subject # <<>>, tool.input.mailbox # <<>>)

\* C23: the filter object has exactly the keys of the predicates that are
\* set, where sender, subject and mailbox count as set when they are a
\* non-empty text: from, subject, inMailbox with the text, isUnread = not read
\* whenever read is set, hasAttachment whenever it is set (also to false),
\* after and before for the bounds of the date range that are set; no other
\* key, and no null.
C23_KeysOfNonEmptyPredicates ==
    tool.name = "to_jmap_filter" =>
       FilterObjectIs(tool.input, tool.output,
                      tool.input.sender \notin {<<>>, <<"">>},
                      tool.input.subject \notin {<<>>, <<"">>},
                      tool.input.mailbox \notin {<<>>, <<"">>})

\* C23: a filter with the sender "" , read = true and has_attachment = false
\* gave isUnread = false and hasAttachment = false, and no key "from".
C23_EmptySenderOmitted ==
    /\ tool.name = "to_jmap_filter"
    /\ tool.input.sender = <<"">>
    /\ tool.input.read = <<TRUE>>
    /\ tool.input.has_attachment = <<FALSE>>
    /\ tool.output = [key \in {"isUnread", "hasAttachment"} |-> <<FALSE>>]

\* The check ended well for verify: the call returned, or the transport
\* raised its capability error.
PassesOrLacks(outcome, capability) ==
    outcome.kind = "ok" \/ outcome.exc = capability_error(capability)

\* C26: with credentials that are no placeholders, verify returns 0 when the
\* mail check succeeds and each of the contacts and calendar checks succeeds
\* or fails with the capability error that the transport's _account_for
\* raises, and returns 1 when the mail check fails or an optional check fails
\* in any other way.
C26_VerifyToleratesMissingCapability ==
    tool.name = "verify" /\ (tool.input.token \/ ~tool.input.placeholder) =>
       LET run == tool.input
           passes == /\ run.mail.kind = "ok"
                     /\ PassesOrLacks(run.contacts, JMAP_CONTACTS_CAPABILITY)
                     /\ PassesOrLacks(run.events, JMAP_CALENDAR_CAPABILITY)
       IN tool.output = Return(IF passes THEN 0 ELSE 1)

\* C26: the mail check and the calendar check succeeded, the contacts check
\* ended with the transport's capability error, and verify returned 1.
C26_CapabilityErrorFailsVerify ==
    /\ tool.name = "verify"
    /\ tool.input.token
    /\ tool.input.mail.kind = "ok"
    /\ tool.input.events.kind = "ok"
    /\ tool.input.contacts = Raise(capability_error(JMAP_CONTACTS_CAPABILITY))
    /\ tool.output = Return(1)

\* The transport operation of the finished call of context c ended with a
\* capability error.
LackedCapability(c) ==
    /\ res[c] # <<>>
    /\ res[c][1].call.live.kind = "raise"
    /\ res[c][1].call.live.exc.etype = "CapabilityError"

\* C24: an operation whose session is resolved (by its own discovery or from
\* the cache) and whose capability has no account id in the resolved mapping
\* ends with a CapabilityError, a transport error of a kind of its own whose
\* message names the capability; it has issued no POST, and the cache still
\* holds the discovered session.  No operation ends so in any other case.
C24_MissingCapabilityIsItsOwnError ==
    \A c \in Contexts :
       res[c] # <<>> =>
          LET k == res[c][1].call
              capability == CapabilityOf(k.op)
              lacks == /\ k.live.kind = "raise"
                       /\ k.live.exc.cls # "ValueError"
                       /\ k.disc \in {"", "resolved"}
                       /\ AccountGet(account_ids.map, capability) = ""
          IN /\ LackedCapability(c) <=> lacks
             /\ LackedCapability(c) =>
                   /\ k.live.exc.cls = FTE
                   /\ k.live.exc.msg = "JMAP capability '" \o capability \o "' not available"
                   /\ k.npost = 0
                   /\ k.acct = ""
                   /\ Resolved(api_url, account_ids)
                   /\ [url |-> api_url, map |-> account_ids.map] \in discovered

\* C24: after an operation that succeeded, a listing of the contacts found no
\* contacts account in the cached mapping: capability error, without a
\* discovery GET or a POST of its own.
C24_CachedSessionLacksContacts ==
    /\ LackedCapability("A")
    /\ res["A"][1].call.op = "list_contacts"
    /\ res["A"][1].call.nget = 0
    /\ res["A"][1].call.npost = 0
    /\ okOps >= 1
    /\ gets = 1
    /\ posts = okOps

\* The finished call of context c was made at the transport and its POST was
\* answered as given.
PostAnswered(c, answer) ==
    /\ res[c] # <<>>
    /\ res[c][1].call.layer = "transport"
    /\ res[c][1].call.answer = answer

\* C25: a POST that fails at the connection raises a NetworkError, one that
\* is answered with a status >= 400 raises the generic transport error with
\* the status; either way the operation has issued this one POST only, and
\* the cache still holds the discovered session.
C25_PostFailureKinds ==
    \A c \in Contexts :
       /\ PostAnswered(c, "exc") =>
             res[c][1].call.live.exc.etype = "NetworkError"
       /\ PostAnswered(c, "500") =>
             res[c][1].call.live.exc = TransportError("JMAP request failed with status")
       /\ PostAnswered(c, "exc") \/ PostAnswered(c, "500") =>
             /\ res[c][1].call.live.kind = "raise"
             /\ res[c][1].call.live.exc.cls = FTE
             /\ res[c][1].call.npost = 1
             /\ Resolved(api_url, account_ids)
             /\ [url |-> api_url, map |-> account_ids.map] \in discovered

\* C25: a POST failed at the connection, and the operation ended with a
\* transport error of the generic kind after that one POST.
C25_ConnectionFailureIsGeneric ==
    /\ PostAnswered("A", "exc")
    /\ res["A"][1].call.npost = 1
    /\ res["A"][1].call.live.exc.cls = FTE
    /\ res["A"][1].call.live.exc.etype = "TransportError"

\* The POSTs of the call of context c, in progress or finished, went to the
\* endpoint of a discovered session with an account id of that session's
\* mapping for the operation's capability.
PostedToDiscovered(c) ==
    call[c].npost > 0 =>
       \E s \in discovered :
          /\ s.url = call[c].url
          /\ <<CapabilityOf(call[c].op), call[c].acct>> \in s.map

\* The assertion of _post or of _account_for has failed in the finished call
\* of context c.
AssertionFailed(c) ==
    /\ res[c] # <<>>
    /\ res[c][1].call.live.kind = "raise"
    /\ res[c][1].call.live.exc.cls = "AssertionError"

\* C27: with concurrent operations on a shared transport too, an operation
\* comes to its POST only after a discovery on the transport has succeeded,
\* every POST goes to the endpoint of a discovered session with an account id
\* of that session's mapping for the operation's capability, and no
\* assertion on the resolved session fails.
C27_PostOnlyOnResolvedSession ==
    \A c \in Contexts :
       /\ pc[c] = "post" => discovered # {} /\ api_url # NoneUrl
       /\ PostedToDiscovered(c)
       /\ ~AssertionFailed(c)

\* C27: context B has resolved the session itself and sent its POST with an
\* account id that is in the mapping of no session discovered so far: it was
\* read from what the discovery of context A, still running, had stored.
C27_PostedUndiscoveredAccount ==
    /\ call["B"].nget = 1
    /\ call["B"].disc = "resolved"
    /\ call["B"].npost = 1
    /\ call["B"].acct # ""
    /\ pc["A"] \in {"check_ids", "store_url"}
    /\ \A s \in discovered :
          <<CapabilityOf(call["B"].op), call["B"].acct>> \notin s.map

\* As long as no discovery has succeeded the transport is unresolved, whatever
\* the failed ones have left behind, and no operation has come to its account
\* lookup or its POST; once one has succeeded the cache holds its session.
NothingCachedBeforeSuccess ==
    /\ discovered = {} =>
          /\ ~Resolved(api_url, account_ids)
          /\ api_url = NoneUrl
          /\ pc["A"] \notin {"lookup", "post"}
          /\ posts = 0
          /\ okOps = 0
    /\ (discovered # {} /\ pc["A"] \in {"idle", "ensure", "lookup", "post"}) =>
          /\ Resolved(api_url, account_ids)
          /\ [url |-> api_url, map |-> account_ids.map] \in discovered
    /\ \A c \in Contexts :
          (res[c] # <<>> /\ DiscoveryFailed(c)) => res[c][1].call.npost = 0

\* An operation that enters _ensure_session issues a discovery GET exactly
\* when no discovery has succeeded before it.
DiscoversUntilSuccess ==
    (pc["A"] = "ensure" /\ pc'["A"] # "ensure") =>
       /\ pc'["A"] = (IF discovered = {} THEN "get" ELSE "lookup")
       /\ pc'["A"] = "lookup" => gets' = gets

\* C28: a failed discovery is not cached.  After discoveries that failed
\* (connection, 401, another status >= 400, no API endpoint, no usable
\* account id) the transport is unresolved and the next operation issues a
\* new discovery GET; once a discovery succeeds the operation goes on and
\* the session stays cached.
C28_FailedDiscoveryIsNotCached ==
    []NothingCachedBeforeSuccess /\ [][DiscoversUntilSuccess]_vars

\* C28: the first operation failed in its discovery, the second one issued a
\* discovery GET of its own and succeeded, and the third one used the cache.
C28_ResolvedOnSecondAttempt ==
    /\ pc["A"] = "idle"
    /\ failedOps = 1
    /\ okOps = 2
    /\ gets = 2
    /\ posts = 2
    /\ res["A"] # <<>>
    /\ res["A"][1].call.nget = 0
    /\ res["A"][1].call.npost = 1

\* Every record of out is one of the records.
TakenFrom(out, records) ==
    \A x \in 0..MaxKey : Count(out, x) <= Count(records, x)

SearchReturned(c) ==
    /\ Finished(c, "command", "search_messages")
    /\ res[c][1].src \in {"live", "fixture"}

\* C30: whenever the client returns a result to the messages-search handler,
\* the handler returns the messages with their pagination, not an error
\* object, and has_more is true exactly when position + number of messages
\* < total; so it does when the result's total is absent.
C30_SearchResultIsReturned ==
    \A c \in Contexts :
       SearchReturned(c) =>
          LET r == res[c][1]
              position == IF r.call.fallback THEN r.call.offset ELSE 0
          IN /\ r.out.kind = "ok"
             /\ r.out.value.has_more <=>
                   position + Len(r.out.value.items) < r.out.value.total

\* C30: the backend answered the search with an empty list and without a
\* total, the client returned that result, and the handler returned a
\* NetworkError object.
C30_AbsentTotalIsNetworkError ==
    /\ SearchReturned("A")
    /\ ~res["A"][1].call.fallback
    /\ res["A"][1].call.answer = "empty"
    /\ res["A"][1].call.live.kind = "ok"
    /\ res["A"][1].out.kind = "error"
    /\ res["A"][1].out.exc.etype = "NetworkError"

====
